---- MODULE Spec2Model ----
(***************************************************************************)
(* A model of the generation / retry / variation orchestration layer of    *)
(* the floor-plan wizard (services/geminiService.ts) and of the scene      *)
(* collection that consumes its results (Step3SceneGeneration.tsx,         *)
(* Step4SceneEditing).                                                      *)
(*                                                                         *)
(* JavaScript runs every handler to completion: a step of the model is one *)
(* task of the event loop, from the event that starts it (a click, a       *)
(* settled network call, a timer) to the next suspension point, with the   *)
(* promise reactions (microtasks) it triggers.                             *)
(*                                                                         *)
(* Text (error messages, data URLs) is a sequence of string tokens: the    *)
(* fixed fragments of a template and the values interpolated into it.      *)
(***************************************************************************)
EXTENDS Integers, Sequences, FiniteSets, TLC

VARIABLES
    rt,         \* the running callGeminiWithRetry call: its locals and its promise
    rtLog,      \* history: the upstream's answer to each call of rt, in order
    arch,       \* a generateArchitecturalImage call made on its own
    archSeen,   \* history: the kinds of answer the upstream gave to arch
    render,     \* the generateAIRendering call: its promise and numberOfImages
    cand,       \* cand[i]: the generateArchitecturalImage call of candidate i
    promptCalls, \* number of generatePromptVariations invocations so far
    scenePoints, \* number of viewpoints chosen on the plan (scenePoints.length)
    style,      \* the style text field
    scenes,     \* the scene collection (generatedScenes)
    isGenerating, \* Step3SceneGeneration's isGenerating flag
    batchNo,    \* number of generateScenes runs that started a batch
    editNo,     \* number of handleEdit and handleCameraUpdate runs
    selectedSceneIndex, \* the scene shown in InteractiveSceneModal (0 for null)
    callsStarted, \* number of asynchronous operations (API calls, file reads) started
    inflight,   \* the generateInteriorScene / editInteriorScene calls not settled yet
    expected,   \* history: per viewpoint, the scene that its own operations give
                \* when they are applied alone, in the order they settled
    overlapped, \* history: the current batch started while calls were still in flight
    dec,        \* the generateDecadeImage call: its position, prompts and promise
    decLog,     \* history: each API call of dec, the prompt it sent and the answer
    val,        \* a raw response and what each of the two validators made of it
    clock,      \* Date.now(), in milliseconds since the first reading
    prompts,    \* the generatePromptVariations invocations so far: input and output
    currentStep, \* App's currentStep
    uploadedImage, \* App's uploadedImage
    renderedImage, \* App's renderedImage
    reads,      \* the FileReader reads of Step1Upload not ended yet
    uploadNo,   \* number of files chosen so far
    step2,      \* the local state of the mounted Step2Rendering
    renderings, \* the generateAIRendering calls of Step2Rendering not settled yet
    renderNo,   \* number of generateAIRendering calls Step2Rendering started
    mountedSince, \* batchNo when Step3SceneGeneration was last unmounted
    presentationText, \* Step5Presentation: presentationText: per slide, the version of its text
    slideImages, \* its slideImages: per slide, the text and theme it was drawn from
    isLoadingText, \* its isLoadingText
    isGeneratingSlides, \* its isGeneratingSlides
    slideError, \* whether its error is set
    selectedTheme, \* its selectedTheme
    editingSlide, \* the slide open in EditSlideModal (0 when the modal is closed)
    regens,     \* the generateSlides calls not settled yet
    regenNo,    \* number of generateSlides calls started
    job,        \* slide renderer: the arguments of the drawing function
    canvas,     \* slide renderer: what the function has drawn
    ideasResponse, \* suggestStyleIdeas: what the generateContent call does
    ideasResult \* suggestStyleIdeas: how the returned promise settled

callVars == <<rt, rtLog, arch, archSeen>>
renderVars == <<render, cand, promptCalls>>
sceneVars ==
    <<scenePoints, style, scenes, isGenerating, batchNo, editNo, callsStarted,
      inflight, expected, overlapped, selectedSceneIndex>>

decadeVars == <<dec, decLog>>
pureVars == <<val, clock, prompts>>
wizardVars ==
    <<currentStep, uploadedImage, renderedImage, reads, uploadNo, step2, renderings,
      renderNo, mountedSince>>
slideVars ==
    <<presentationText, slideImages, isLoadingText, isGeneratingSlides,
      slideError, selectedTheme, editingSlide, regens, regenNo>>
rendererVars == <<job, canvas>>
ideaVars == <<ideasResponse, ideasResult>>
laterVars == <<slideVars, rendererVars, ideaVars>>
restVars == <<wizardVars, laterVars>>

vars == <<callVars, renderVars, sceneVars, decadeVars, pureVars, restVars>>

----------------------------------------------------------------------------
(* Bounds of the model *)

\* largest numberOfImages a caller asks for
MaxK == 2
\* largest number of viewpoints placed
MaxPoints == 2
\* largest number of asynchronous operations (API calls, file reads) started
MaxCalls == 5
\* largest number of parts in a raw response handed to the validators
MaxParts == 2
\* largest reading of the clock, in milliseconds after the first reading
MaxClock == 2
\* largest number of generatePromptVariations invocations
MaxInvocations == 2
\* largest number of generateSlides calls started
MaxRegens == 3
\* largest number of characters of a text handed to the slide renderer
MaxText == 3
\* largest width and height of a source image, in pixels
MaxSide == 4
\* largest number of elements of the array answered to suggestStyleIdeas
MaxStyles == 7

(* Constants of the program *)

maxViewpoints == 8
maxRetries == 3
initialDelay == 1000
maxAttempts == 7
backoffUnit == 1000
backoffCeiling == 60000

----------------------------------------------------------------------------
(* Text helpers *)

\* String.prototype.includes on a message, for a token of the message
Includes(msg, tok) == \E i \in DOMAIN msg : msg[i] = tok

Min(a, b) == IF a <= b THEN a ELSE b

RECURSIVE Pow2(_)
Pow2(n) == IF n = 0 THEN 1 ELSE 2 * Pow2(n - 1)

----------------------------------------------------------------------------
(* The upstream API: what ai.models.generateContent can answer *)

TextPart(t) == [inlineData |-> FALSE, mimeType |-> "", data |-> "", text |-> t]
ImagePart(m, d) == [inlineData |-> TRUE, mimeType |-> m, data |-> d, text |-> ""]

NoResponse == [finishReason |-> "", parts |-> <<>>]

\* responses the upstream can resolve with (first candidate's finishReason and parts)
Responses ==
    { [finishReason |-> "STOP", parts |-> <<TextPart("Here you go"), ImagePart("image/png", "AAAA")>>],
      [finishReason |-> "STOP", parts |-> <<ImagePart("image/jpeg", "BBBB")>>],
      [finishReason |-> "STOP", parts |-> <<TextPart("I cannot help with that")>>],
      [finishReason |-> "SAFETY", parts |-> <<>>] }

\* messages of the errors the upstream can reject with
ApiErrors ==
    { <<"{\"error\":{", "\"code\":500", ",\"status\":\"", "INTERNAL", "\"}}">>,
      <<"got status: ", "INTERNAL">>,
      <<"{\"error\":{", "\"code\":429", "}}">>,
      <<"Failed to fetch">> }

Resolves(r) == [throws |-> FALSE, resp |-> r, msg |-> <<>>]
Rejects(m) == [throws |-> TRUE, resp |-> NoResponse, msg |-> m]

Outcomes == {Resolves(r) : r \in Responses} \cup {Rejects(m) : m \in ApiErrors}

\* the transient-error signature of callGeminiWithRetry
isInternalError(errorMessage) ==
    Includes(errorMessage, "\"code\":500") \/ Includes(errorMessage, "INTERNAL")

\* parts.find(p => p.inlineData): index of the first part carrying inline data, 0 if none
RECURSIVE FindInline(_, _)
FindInline(parts, i) ==
    IF i > Len(parts) THEN 0
    ELSE IF parts[i].inlineData THEN i
    ELSE FindInline(parts, i + 1)

\* history kinds of an upstream answer
Kind(o) ==
    IF o.throws THEN (IF isInternalError(o.msg) THEN "transient" ELSE "error")
    ELSE IF o.resp.finishReason = "SAFETY" THEN "safety"
    ELSE IF FindInline(o.resp.parts, 1) > 0 THEN "image"
    ELSE "text"

----------------------------------------------------------------------------
(* callGeminiWithRetry *)

RtIdle ==
    [pc |-> "idle", attempt |-> 0, calls |-> 0, delays |-> <<>>,
     response |-> NoResponse, error |-> <<>>]

\* the delay before the retry that follows failed attempt number `attempt`
RetryDelay(attempt) == initialDelay * Pow2(attempt - 1)

\* mutation of ShouldRetry: the attempt bound is off by one
ShouldRetryOnceMore(errorMessage, attempt) ==
    isInternalError(errorMessage) /\ attempt <= maxRetries

\* mutation of ShouldRetry: one attempt too few
ShouldRetryOnceLess(errorMessage, attempt) ==
    isInternalError(errorMessage) /\ attempt < maxRetries - 1

\* mutation of ShouldRetry: every error is retried, whatever its message
ShouldRetryAnyError(errorMessage, attempt) == attempt < maxRetries

\* the catch block: retry an internal error while attempts are left, else re-throw
ShouldRetry(errorMessage, attempt) ==
    isInternalError(errorMessage) /\ attempt < maxRetries

\* entry: the loop starts with attempt = 1 and issues the first call
RetryStart == [RtIdle EXCEPT !.pc = "calling", !.attempt = 1, !.calls = 1]

\* the catch block, for the error message m of the call of r that failed
RetryCatch(r, m) ==
    IF ShouldRetry(m, r.attempt)
    THEN [r EXCEPT !.pc = "sleeping", !.delays = Append(@, RetryDelay(r.attempt))]
    ELSE [r EXCEPT !.pc = "thrown", !.error = m]

CallGeminiWithRetry ==
    /\ rt.pc = "idle"
    /\ rt' = RetryStart
    /\ UNCHANGED <<rtLog, arch, archSeen, renderVars, sceneVars, decadeVars, pureVars, restVars>>

\* the awaited generateContent resolves: return the response
RetryResolved(r) ==
    /\ rt.pc = "calling"
    /\ rt' = [rt EXCEPT !.pc = "returned", !.response = r]
    /\ rtLog' = Append(rtLog, Resolves(r))
    /\ UNCHANGED <<arch, archSeen, renderVars, sceneVars, decadeVars, pureVars, restVars>>

\* the awaited generateContent rejects: the catch block
RetryRejected(m) ==
    /\ rt.pc = "calling"
    /\ rt' = RetryCatch(rt, m)
    /\ rtLog' = Append(rtLog, Rejects(m))
    /\ UNCHANGED <<arch, archSeen, renderVars, sceneVars, decadeVars, pureVars, restVars>>

\* the throw statement placed after the loop
RetryLoopExitMessage == <<"Gemini API call failed after all retries.">>

\* mutation of RetryContinue: attempt is not incremented
RetryContinueSameAttempt(r) == [r EXCEPT !.pc = "calling", !.calls = @ + 1]

\* continue: attempt++, then the loop condition; the next call, or the loop ends
RetryContinue(r) ==
    IF r.attempt + 1 <= maxRetries
    THEN [r EXCEPT !.pc = "calling", !.attempt = @ + 1, !.calls = @ + 1]
    ELSE [r EXCEPT !.pc = "thrown", !.attempt = @ + 1, !.error = RetryLoopExitMessage]

\* the setTimeout of the backoff fires
RetryTimer ==
    /\ rt.pc = "sleeping"
    /\ rt' = RetryContinue(rt)
    /\ UNCHANGED <<rtLog, arch, archSeen, renderVars, sceneVars, decadeVars, pureVars, restVars>>

----------------------------------------------------------------------------
(* generateArchitecturalImage *)

NotStarted ==
    [pc |-> "none", attempts |-> 0, calls |-> 0, delays |-> <<>>,
     url |-> <<>>, error |-> <<>>, prompt |-> 0]

SafetyMessage == <<"Content was blocked by safety filters">>
NoImageMessage == <<"API response did not contain image data">>

\* the data URL built from the image part's payload
ArchDataUrl(part) == <<"data:", "image/png", ";base64,", part.data>>

\* the validation of a response inside the try block
ArchValidate(resp) ==
    IF resp.finishReason = "SAFETY"
    THEN [ok |-> FALSE, url |-> <<>>, msg |-> SafetyMessage]
    ELSE LET k == FindInline(resp.parts, 1) IN
         IF k > 0 /\ resp.parts[k].data /= ""
         THEN [ok |-> TRUE, url |-> ArchDataUrl(resp.parts[k]), msg |-> <<>>]
         ELSE [ok |-> FALSE, url |-> <<>>, msg |-> NoImageMessage]

\* the error thrown when the attempts are used up
ExhaustedError(last) ==
    <<"Architectural image generation failed after ", ToString(maxAttempts),
      " attempts. Last error: ">> \o last

\* mutation of BackoffTime: the ceiling is not applied
BackoffTimeUncapped(attempts) == Pow2(attempts) * backoffUnit

\* the wait before the retry that follows failure number `attempts`
BackoffTime(attempts) == Min(Pow2(attempts) * backoffUnit, backoffCeiling)

\* entry: the loop issues the first call (attempts = 0 < maxAttempts)
ArchStart(promptId) ==
    [NotStarted EXCEPT !.pc = "inflight", !.calls = 1, !.prompt = promptId]

\* mutation of ArchCatch: the catch block never throws
ArchCatchBacksOff(c, err) ==
    [c EXCEPT !.attempts = @ + 1, !.pc = "backoff",
              !.delays = Append(@, BackoffTime(c.attempts + 1))]

\* the catch block, for any error thrown inside the try block
ArchCatch(c, err) ==
    LET a == c.attempts + 1 IN
    IF a >= maxAttempts
    THEN [c EXCEPT !.attempts = a, !.pc = "rejected", !.error = ExhaustedError(err)]
    ELSE [c EXCEPT !.attempts = a, !.pc = "backoff",
                   !.delays = Append(@, BackoffTime(a))]

\* the awaited generateContent settles with outcome o
ArchSettled(c, o) ==
    IF o.throws THEN ArchCatch(c, o.msg)
    ELSE LET v == ArchValidate(o.resp) IN
         IF v.ok THEN [c EXCEPT !.pc = "resolved", !.url = v.url]
         ELSE ArchCatch(c, v.msg)

\* the throw statement placed after the loop
ArchLoopExitMessage == <<"Architectural image generation failed after all attempts">>

\* the backoff timer fires: the while condition; the next call, or the loop ends
ArchRetry(c) ==
    IF c.attempts < maxAttempts
    THEN [c EXCEPT !.pc = "inflight", !.calls = @ + 1]
    ELSE [c EXCEPT !.pc = "rejected", !.error = ArchLoopExitMessage]

\* a caller such as generateInteriorScene invokes the function once
GenerateArchitecturalImage ==
    /\ arch.pc = "none"
    /\ arch' = ArchStart(0)
    /\ UNCHANGED <<rt, rtLog, archSeen, renderVars, sceneVars, decadeVars, pureVars, restVars>>

ArchApiSettles(o) ==
    /\ arch.pc = "inflight"
    /\ arch' = ArchSettled(arch, o)
    /\ archSeen' = archSeen \cup {Kind(o)}
    /\ UNCHANGED <<rt, rtLog, renderVars, sceneVars, decadeVars, pureVars, restVars>>

ArchTimer ==
    /\ arch.pc = "backoff"
    /\ arch' = ArchRetry(arch)
    /\ UNCHANGED <<rt, rtLog, archSeen, renderVars, sceneVars, decadeVars, pureVars, restVars>>

----------------------------------------------------------------------------
(* generateAIRendering *)

RenderIdle == [status |-> "idle", n |-> 0, value |-> <<>>, error |-> <<>>]

FetchFailed == <<"Failed to fetch">>

\* mutation of Launched: each candidate is awaited inside the loop before the
\* next one is started
LaunchedOneByOne(i, n) == i = 1 /\ i <= n

\* the for loop: candidate i of numberOfImages = n gets its async function
\* started in the loop, without awaiting the ones before it
Launched(i, n) == i <= n

\* each async function calls generatePromptVariations itself: candidate i's
\* prompt comes from invocation number (earlier invocations + i)
PromptInvocation(i, before) == before + i

\* Promise.all(generationPromises), when candidate i's promise just changed:
\* rejects with the first rejection, resolves once all n are resolved
PromiseAll(r, cs, i) ==
    IF r.status /= "pending" THEN r
    ELSE IF cs[i].pc = "rejected"
         THEN [r EXCEPT !.status = "rejected", !.error = cs[i].error]
    ELSE IF \A j \in 1..r.n : cs[j].pc = "resolved"
         THEN [r EXCEPT !.status = "resolved", !.value = [j \in 1..r.n |-> cs[j].url]]
    ELSE r

\* the call: runs to `await imageSrcToBase64(baseImageSrc)`
GenerateAIRendering(n) ==
    /\ render.status = "idle"
    /\ render' = [render EXCEPT !.status = "converting", !.n = n]
    /\ UNCHANGED <<cand, promptCalls, callVars, sceneVars, decadeVars, pureVars, restVars>>

\* imageSrcToBase64 rejects (the fetch of a blob URL fails): the call rejects
RenderConvertFails ==
    /\ render.status = "converting"
    /\ render' = [render EXCEPT !.status = "rejected", !.error = FetchFailed]
    /\ UNCHANGED <<cand, promptCalls, callVars, sceneVars, decadeVars, pureVars, restVars>>

\* imageSrcToBase64 resolves: the loop runs, then `await Promise.all(...)`
RenderLaunch ==
    /\ render.status = "converting"
    /\ cand' = [i \in 1..MaxK |->
                   IF Launched(i, render.n)
                   THEN ArchStart(PromptInvocation(i, promptCalls))
                   ELSE NotStarted]
    /\ promptCalls' = promptCalls + Cardinality({i \in 1..MaxK : Launched(i, render.n)})
    /\ render' = [render EXCEPT !.status = "pending"]
    /\ UNCHANGED <<callVars, sceneVars, decadeVars, pureVars, restVars>>

\* candidate i's generateContent settles
CandApiSettles(i, o) ==
    /\ cand[i].pc = "inflight"
    /\ cand' = [cand EXCEPT ![i] = ArchSettled(cand[i], o)]
    /\ render' = PromiseAll(render, cand', i)
    /\ UNCHANGED <<promptCalls, callVars, sceneVars, decadeVars, pureVars, restVars>>

\* candidate i's backoff timer fires
CandTimer(i) ==
    /\ cand[i].pc = "backoff"
    /\ cand' = [cand EXCEPT ![i] = ArchRetry(cand[i])]
    /\ render' = PromiseAll(render, cand', i)
    /\ UNCHANGED <<promptCalls, callVars, sceneVars, decadeVars, pureVars, restVars>>

----------------------------------------------------------------------------
(* generateDecadeImage, with processGeminiResponse, extractDecade and
   getFallbackPrompt.  A prompt is a sequence of one-character strings, so that
   the regular expression of extractDecade is matched as the code matches it. *)

Digits == {"0", "1", "2", "3", "4", "5", "6", "7", "8", "9"}

\* prompts a caller passes: "in 1950s", "12345s!", "195s", "retro"
Prompts ==
    { <<"i", "n", " ", "1", "9", "5", "0", "s">>,
      <<"1", "2", "3", "4", "5", "s", "!">>,
      <<"1", "9", "5", "s">>,
      <<"r", "e", "t", "r", "o">> }

\* /(\d{4}s)/ matches at position i of prompt
DecadeAt(prompt, i) ==
    /\ i + 4 <= Len(prompt)
    /\ \A j \in i..(i + 3) : prompt[j] \in Digits
    /\ prompt[i + 4] = "s"

\* position of the leftmost match of /(\d{4}s)/ from position i on, 0 if none
RECURSIVE FirstDecade(_, _)
FirstDecade(prompt, i) ==
    IF i > Len(prompt) THEN 0
    ELSE IF DecadeAt(prompt, i) THEN i
    ELSE FirstDecade(prompt, i + 1)

\* extractDecade: the matched text, or <<>> for null
extractDecade(prompt) ==
    LET k == FirstDecade(prompt, 1) IN
    IF k = 0 THEN <<>> ELSE SubSeq(prompt, k, k + 4)

getFallbackPrompt(decade) ==
    <<"Create a photograph of the person in this image as if they were living in the ">>
    \o decade
    \o <<". The photograph should capture the distinct fashion, hairstyles, and overall atmosphere of that time period. Ensure the final image is a clear photograph that looks authentic to the era.">>

\* response.text: the text of the text parts of the first candidate, in order
RECURSIVE ResponseText(_, _)
ResponseText(parts, i) ==
    IF i > Len(parts) THEN <<>>
    ELSE IF parts[i].text /= "" THEN <<parts[i].text>> \o ResponseText(parts, i + 1)
    ELSE ResponseText(parts, i + 1)

NoImageText == "The AI model responded with text instead of an image"
NoTextPlaceholder == <<"No text response received.">>

\* mutation of processGeminiResponse: a response that holds text is taken for a
\* refusal even when an image part comes with it
processGeminiResponseTextWins(response) ==
    LET k == FindInline(response.parts, 1)
        textResponse == ResponseText(response.parts, 1)
    IN  IF k > 0 /\ textResponse = <<>>
        THEN [ok |-> TRUE, msg |-> <<>>,
              url |-> <<"data:", response.parts[k].mimeType, ";base64,",
                        response.parts[k].data>>]
        ELSE [ok |-> FALSE, url |-> <<>>,
              msg |-> <<NoImageText, ": \"">>
                      \o (IF textResponse = <<>> THEN NoTextPlaceholder ELSE textResponse)
                      \o <<"\"">>]

\* processGeminiResponse: the data URL of the first inline-data part, or the
\* error it throws
processGeminiResponse(response) ==
    LET k == FindInline(response.parts, 1)
        textResponse == ResponseText(response.parts, 1)
    IN  IF k > 0
        THEN [ok |-> TRUE, msg |-> <<>>,
              url |-> <<"data:", response.parts[k].mimeType, ";base64,",
                        response.parts[k].data>>]
        ELSE [ok |-> FALSE, url |-> <<>>,
              msg |-> <<NoImageText, ": \"">>
                      \o (IF textResponse = <<>> THEN NoTextPlaceholder ELSE textResponse)
                      \o <<"\"">>]

InvalidUrlMessage ==
    <<"Invalid image data URL format. Expected 'data:image/...;base64,...'">>

DecIdle ==
    [pc |-> "idle", prompt |-> <<>>, sent |-> <<>>, call |-> RtIdle,
     url |-> <<>>, error |-> <<>>]

\* errorMessage.includes("The AI model responded with text instead of an image")
isNoImageError(errorMessage) == Includes(errorMessage, NoImageText)

\* mutation of CanFallBack: the fallback is tried after any failure
CanFallBackAlways(errorMessage, prompt) == extractDecade(prompt) /= <<>>

\* the fallback branch is entered: a no-image error and a decade in the prompt
CanFallBack(errorMessage, prompt) ==
    isNoImageError(errorMessage) /\ extractDecade(prompt) /= <<>>

\* the catch block of the first attempt, for error message m
DecCatchOriginal(d, m) ==
    IF CanFallBack(m, d.prompt)
    THEN [d EXCEPT !.pc = "fallback",
                   !.sent = getFallbackPrompt(extractDecade(d.prompt)),
                   !.call = RetryStart]
    ELSE IF isNoImageError(m)
    THEN [d EXCEPT !.pc = "thrown", !.error = m]
    ELSE [d EXCEPT !.pc = "thrown",
                   !.error = <<"The AI model failed to generate an image. Details: ">> \o m]

\* mutation of DecCatchFallback: a no-image error of the fallback attempt starts
\* the fallback attempt again
DecCatchFallbackAgain(d, m) ==
    IF isNoImageError(m)
    THEN [d EXCEPT !.call = RetryStart]
    ELSE [d EXCEPT !.pc = "thrown",
                   !.error = <<"The AI model failed with both original and fallback prompts. Last error: ">>
                             \o m]

\* the catch block of the second attempt
DecCatchFallback(d, m) ==
    [d EXCEPT !.pc = "thrown",
              !.error = <<"The AI model failed with both original and fallback prompts. Last error: ">>
                        \o m]

DecCatch(d, m) ==
    IF d.pc = "original" THEN DecCatchOriginal(d, m) ELSE DecCatchFallback(d, m)

\* callGeminiWithRetry of the current attempt has come to state c
DecAfterCall(d, c) ==
    IF c.pc = "returned"
    THEN LET v == processGeminiResponse(c.response) IN
         IF v.ok THEN [d EXCEPT !.pc = "returned", !.url = v.url, !.call = c]
         ELSE DecCatch([d EXCEPT !.call = c], v.msg)
    ELSE IF c.pc = "thrown" THEN DecCatch([d EXCEPT !.call = c], c.error)
    ELSE [d EXCEPT !.call = c]

\* the call, up to the first API call (or the throw for a malformed data URL)
GenerateDecadeImage(valid, prompt) ==
    /\ dec.pc = "idle"
    /\ dec' = IF valid
              THEN [dec EXCEPT !.pc = "original", !.prompt = prompt, !.sent = prompt,
                               !.call = RetryStart]
              ELSE [dec EXCEPT !.pc = "thrown", !.prompt = prompt,
                               !.error = InvalidUrlMessage]
    /\ UNCHANGED <<decLog, callVars, renderVars, sceneVars, pureVars, restVars>>

\* the API call in flight settles with outcome o
DecApiSettles(o) ==
    /\ dec.pc \in {"original", "fallback"}
    /\ dec.call.pc = "calling"
    /\ dec' = DecAfterCall(dec,
                IF o.throws THEN RetryCatch(dec.call, o.msg)
                ELSE [dec.call EXCEPT !.pc = "returned", !.response = o.resp])
    /\ decLog' = Append(decLog, [phase |-> dec.pc, sent |-> dec.sent, out |-> o])
    /\ UNCHANGED <<callVars, renderVars, sceneVars, pureVars, restVars>>

\* the backoff timer of callGeminiWithRetry fires
DecTimer ==
    /\ dec.pc \in {"original", "fallback"}
    /\ dec.call.pc = "sleeping"
    /\ dec' = DecAfterCall(dec, RetryContinue(dec.call))
    /\ UNCHANGED <<decLog, callVars, renderVars, sceneVars, pureVars, restVars>>

----------------------------------------------------------------------------
(* The two response validators as functions of a raw response *)

FinishReasons == {"STOP", "MAX_TOKENS", "SAFETY"}

\* parts a response can hold
RawParts ==
    { TextPart("Here you go"), ImagePart("image/png", "AAAA"),
      ImagePart("image/jpeg", "BBBB"), ImagePart("image/png", "") }

RECURSIVE PartSeqs(_)
PartSeqs(n) ==
    IF n = 0 THEN {<<>>}
    ELSE PartSeqs(n - 1) \cup
         {Append(ps, p) : ps \in {q \in PartSeqs(n - 1) : Len(q) = n - 1}, p \in RawParts}

RawResponses ==
    {[finishReason |-> f, parts |-> ps] : f \in FinishReasons, ps \in PartSeqs(MaxParts)}

NotRun == [ok |-> FALSE, url |-> <<>>, msg |-> <<"not run">>]
Received(resp) == [resp |-> resp, proc |-> NotRun, arch |-> NotRun]

\* processGeminiResponse is applied to the response
ProcessGeminiResponse ==
    /\ val.proc = NotRun
    /\ val' = [val EXCEPT !.proc = processGeminiResponse(val.resp)]
    /\ UNCHANGED <<clock, prompts, callVars, renderVars, sceneVars, decadeVars, restVars>>

\* the validation of generateArchitecturalImage is applied to the response
ValidateArchitectural ==
    /\ val.arch = NotRun
    /\ val' = [val EXCEPT !.arch = ArchValidate(val.resp)]
    /\ UNCHANGED <<clock, prompts, callVars, renderVars, sceneVars, decadeVars, restVars>>

----------------------------------------------------------------------------
(* generatePromptVariations *)

variations ==
    << "", ". Please generate a unique result.", "; make it distinctive.",
       "! Create something fresh.", " - ensure originality.", "? Make it stand out.",
       ": focus on uniqueness." >>

BasePrompts == {"Render this floor plan", "Create a dollhouse view"}

\* the returned string, for Math.floor(Math.random() * variations.length) = r
\* and Date.now() = timestamp
PromptVariation(basePrompt, r, timestamp) ==
    <<basePrompt, variations[r + 1], " [", ToString(timestamp), "]">>

\* a millisecond passes
Tick ==
    /\ clock < MaxClock
    /\ clock' = clock + 1
    /\ UNCHANGED <<val, prompts, callVars, renderVars, sceneVars, decadeVars, restVars>>

\* one invocation
GeneratePromptVariations(basePrompt, r) ==
    /\ Len(prompts) < MaxInvocations
    /\ prompts' = Append(prompts, [basePrompt |-> basePrompt,
                                   out |-> PromptVariation(basePrompt, r, clock)])
    /\ UNCHANGED <<val, clock, callVars, renderVars, sceneVars, decadeVars, restVars>>

----------------------------------------------------------------------------
(* The scene collection: Step3SceneGeneration and Step4SceneEditing *)

\* An image or an error message produced by the upstream is named by the call
\* that produced it: every call returns an image (or a message) of its own.
NoMark == [kind |-> "", batch |-> 0, view |-> 0, edit |-> 0]
GenUrl(b, v) == [kind |-> "image", batch |-> b, view |-> v, edit |-> 0]
GenError(b, v) == [kind |-> "error", batch |-> b, view |-> v, edit |-> 0]
EditUrl(b, v, e) == [kind |-> "image", batch |-> b, view |-> v, edit |-> e]

Styles == {"", "Modern"}
lightingMode == "day"
colorTemperature == 6500

\* what the user sets on an EditableSceneCard before Apply
EditInputs ==
    { [mode |-> "night", temperature |-> 3000],
      [mode |-> "day", temperature |-> colorTemperature] }

\* a zoom factor is a fraction num / den in lowest terms (1.25 is 5/4)
RECURSIVE GCD(_, _)
GCD(a, b) == IF b = 0 THEN a ELSE GCD(b, a % b)
Frac(n, d) == [num |-> n \div GCD(n, d), den |-> d \div GCD(n, d)]
FracLess(a, b) == a.num * b.den < b.num * a.den
FracTimes(a, b) == Frac(a.num * b.num, a.den * b.den)
FracMin(a, b) == IF FracLess(b, a) THEN b ELSE a
FracMax(a, b) == IF FracLess(a, b) THEN b ELSE a
Max(a, b) == IF a > b THEN a ELSE b

\* { rotation: 0, tilt: 0, zoom: 1 }
DefaultCamera == [rotation |-> 0, tilt |-> 0, zoom |-> Frac(1, 1)]

\* an element of initialScenes
InitialScene(i, st) ==
    [url |-> NoMark, originalUrl |-> NoMark, viewIndex |-> i, style |-> st,
     isLoading |-> TRUE, error |-> NoMark, camera |-> DefaultCamera,
     mode |-> lightingMode, temperature |-> colorTemperature]

\* plan is finalPlanImage of the closure generateScenes runs in
GenOp(b, v) ==
    [kind |-> "gen", batch |-> b, view |-> v, edit |-> 0,
     mode |-> lightingMode, temperature |-> colorTemperature, plan |-> renderedImage]
\* scene is scenes[sceneIndex] of the closure the handler runs in
EditOp(b, v, e, in, scene) ==
    [kind |-> "edit", batch |-> b, view |-> v, edit |-> e,
     mode |-> in.mode, temperature |-> in.temperature, scene |-> scene]

\* a scene card shows the Retry button
RetryVisible ==
    \E i \in DOMAIN scenes :
        /\ ~(scenes[i].isLoading /\ scenes[i].url = NoMark)
        /\ scenes[i].error /= NoMark

\* mutation of GenSucceeded: the update is computed from the closure's
\* initialScenes instead of the previous state
GenSucceededFromInitial(prev, index, sceneUrl) ==
    [i \in DOMAIN prev |->
        IF i = index
        THEN [prev[i] EXCEPT !.url = sceneUrl, !.originalUrl = sceneUrl, !.isLoading = FALSE]
        ELSE InitialScene(i, prev[i].style)]

\* prev => prev.map(...) of a generation that succeeded, for array position index
GenSucceeded(prev, index, sceneUrl) ==
    [i \in DOMAIN prev |->
        IF i = index
        THEN [prev[i] EXCEPT !.url = sceneUrl, !.originalUrl = sceneUrl, !.isLoading = FALSE]
        ELSE prev[i]]

\* mutation of GenFailed: the failed scene is filtered out of the collection
GenFailedDropsScene(prev, index, message) ==
    IF index \in DOMAIN prev
    THEN [i \in 1..(Len(prev) - 1) |-> IF i < index THEN prev[i] ELSE prev[i + 1]]
    ELSE prev

\* prev => prev.map(...) of a generation that failed
GenFailed(prev, index, message) ==
    [i \in DOMAIN prev |->
        IF i = index
        THEN [prev[i] EXCEPT !.isLoading = FALSE, !.error = message]
        ELSE prev[i]]

\* the body of generateScenes after its early returns
StartBatch ==
    /\ style /= ""
    /\ scenePoints > 0
    /\ callsStarted + scenePoints <= MaxCalls
    /\ isGenerating' = TRUE
    /\ batchNo' = batchNo + 1
    /\ scenes' = [i \in 1..scenePoints |-> InitialScene(i, style)]
    /\ inflight' = inflight \cup {GenOp(batchNo + 1, i) : i \in 1..scenePoints}
    /\ expected' = [v \in 1..MaxPoints |-> InitialScene(v, style)]
    /\ callsStarted' = callsStarted + scenePoints
    /\ overlapped' = (inflight /= {})
    /\ UNCHANGED <<scenePoints, style, editNo, selectedSceneIndex,
                   callVars, renderVars, decadeVars, pureVars, restVars>>

\* generateScenes from the Generate button (disabled while generating)
GenerateScenes ==
    /\ ~isGenerating
    /\ StartBatch

\* generateScenes from the Retry button of a failed scene
RetryGenerateScenes ==
    /\ RetryVisible
    /\ StartBatch

\* whether generation promises of batch b are still pending in set ops
BatchPending(ops, b) == \E o \in ops : o.kind = "gen" /\ o.batch = b

\* one generateInteriorScene call of a batch settles; when it is the last of
\* its batch, Promise.all resolves and setIsGenerating(false) runs
GenSettles(op, ok) ==
    /\ op \in inflight
    /\ op.kind = "gen"
    /\ scenes' = IF ok THEN GenSucceeded(scenes, op.view, GenUrl(op.batch, op.view))
                 ELSE GenFailed(scenes, op.view, GenError(op.batch, op.view))
    /\ inflight' = inflight \ {op}
    /\ isGenerating' = IF BatchPending(inflight', op.batch) THEN isGenerating ELSE FALSE
    /\ expected' = [expected EXCEPT ![op.view] =
                       IF ok THEN [@ EXCEPT !.url = GenUrl(op.batch, op.view),
                                            !.originalUrl = GenUrl(op.batch, op.view),
                                            !.isLoading = FALSE]
                       ELSE [@ EXCEPT !.error = GenError(op.batch, op.view),
                                      !.isLoading = FALSE]]
    /\ UNCHANGED <<scenePoints, style, batchNo, editNo, callsStarted, overlapped,
                   selectedSceneIndex,
                   callVars, renderVars, decadeVars, pureVars, restVars>>

\* addScenePoint
AddScenePoint ==
    /\ scenePoints < maxViewpoints
    /\ scenePoints < MaxPoints
    /\ scenePoints' = scenePoints + 1
    /\ UNCHANGED <<style, scenes, isGenerating, batchNo, editNo, callsStarted,
                   inflight, expected, overlapped, selectedSceneIndex,
                   callVars, renderVars, decadeVars, pureVars, restVars>>

\* clearPoints
ClearPoints ==
    /\ scenePoints > 0 \/ scenes /= <<>>
    /\ scenePoints' = 0
    /\ scenes' = <<>>
    /\ UNCHANGED <<style, isGenerating, batchNo, editNo, callsStarted, inflight,
                   expected, overlapped, selectedSceneIndex,
                   callVars, renderVars, decadeVars, pureVars, restVars>>

\* onStyleChange
OnStyleChange(st) ==
    /\ st /= style
    /\ style' = st
    /\ UNCHANGED <<scenePoints, scenes, isGenerating, batchNo, editNo, callsStarted,
                   inflight, expected, overlapped, selectedSceneIndex,
                   callVars, renderVars, decadeVars, pureVars, restVars>>

\* prev => prev.map(s => s.viewIndex === viewIndex ? {...s, isLoading} : s)
SetLoading(prev, viewIndex, loading) ==
    [i \in DOMAIN prev |->
        IF prev[i].viewIndex = viewIndex
        THEN [prev[i] EXCEPT !.isLoading = loading]
        ELSE prev[i]]

\* the updater of an edit that succeeded
EditSucceeded(prev, viewIndex, newUrl, mode, temperature) ==
    [i \in DOMAIN prev |->
        IF prev[i].viewIndex = viewIndex
        THEN [prev[i] EXCEPT !.url = newUrl, !.mode = mode,
                             !.temperature = temperature, !.isLoading = FALSE,
                             !.originalUrl = IF prev[i].url = prev[i].originalUrl
                                             THEN prev[i].url ELSE @]
        ELSE prev[i]]

\* handleEdit up to its first await (Apply is disabled while the scene loads)
HandleEdit(viewIndex, in) ==
    /\ \E i \in DOMAIN scenes :
          scenes[i].viewIndex = viewIndex /\ ~scenes[i].isLoading
    /\ callsStarted < MaxCalls
    /\ callsStarted' = callsStarted + 1
    /\ editNo' = editNo + 1
    /\ scenes' = SetLoading(scenes, viewIndex, TRUE)
    /\ inflight' = inflight \cup {EditOp(batchNo, viewIndex, editNo + 1, in, scenes[viewIndex])}
    /\ expected' = [expected EXCEPT ![viewIndex] = [@ EXCEPT !.isLoading = TRUE]]
    /\ UNCHANGED <<scenePoints, style, isGenerating, batchNo, overlapped,
                   selectedSceneIndex,
                   callVars, renderVars, decadeVars, pureVars, restVars>>

\* the awaited editInteriorScene settles
EditSettles(op, ok) ==
    /\ op \in inflight
    /\ op.kind = "edit"
    /\ scenes' = IF ok
                 THEN EditSucceeded(scenes, op.view, EditUrl(op.batch, op.view, op.edit),
                                    op.mode, op.temperature)
                 ELSE SetLoading(scenes, op.view, FALSE)
    /\ inflight' = inflight \ {op}
    /\ expected' = [expected EXCEPT ![op.view] =
                       IF ok THEN [@ EXCEPT !.url = EditUrl(op.batch, op.view, op.edit),
                                            !.mode = op.mode,
                                            !.temperature = op.temperature,
                                            !.isLoading = FALSE]
                       ELSE [@ EXCEPT !.isLoading = FALSE]]
    /\ UNCHANGED <<scenePoints, style, isGenerating, batchNo, editNo, callsStarted,
                   overlapped, selectedSceneIndex,
                   callVars, renderVars, decadeVars, pureVars, restVars>>

\* handleRestore (Restore is disabled unless url differs from originalUrl)
HandleRestore(viewIndex) ==
    /\ \E i \in DOMAIN scenes :
          /\ scenes[i].viewIndex = viewIndex
          /\ scenes[i].url /= scenes[i].originalUrl
          /\ ~scenes[i].isLoading
    /\ scenes' = [i \in DOMAIN scenes |->
                    IF scenes[i].viewIndex = viewIndex
                    THEN [scenes[i] EXCEPT !.url = scenes[i].originalUrl]
                    ELSE scenes[i]]
    /\ expected' = [expected EXCEPT ![viewIndex] =
                       [@ EXCEPT !.url = expected[viewIndex].originalUrl]]
    /\ UNCHANGED <<scenePoints, style, isGenerating, batchNo, editNo, callsStarted,
                   inflight, overlapped, selectedSceneIndex,
                   callVars, renderVars, decadeVars, pureVars, restVars>>

----------------------------------------------------------------------------
(* InteractiveSceneModal and handleCameraUpdate of Step3SceneGeneration *)

\* the image the e-th regeneration returns, and the message of its failure
CameraUrl(b, v, e) == [kind |-> "image", batch |-> b, view |-> v, edit |-> e]
CameraError(b, v, e) == [kind |-> "error", batch |-> b, view |-> v, edit |-> e]

\* scene is sceneToUpdate, scenes[sceneToUpdateIndex] of the closure
CameraOp(b, v, e, newCamera, scene) ==
    [kind |-> "camera", batch |-> b, view |-> v, edit |-> e, camera |-> newCamera,
     scene |-> scene]

\* the cameraChanges the six buttons of the modal pass for the camera shown
\* (field names the one property the object carries; degrees holds its value
\* when it is tilt or rotation, factor when it is zoom)
CameraChange(field, degrees, factor) ==
    [field |-> field, degrees |-> degrees, factor |-> factor]

ModalButtons(camera) ==
    { CameraChange("tilt", camera.tilt + 15, camera.zoom),
      CameraChange("tilt", camera.tilt - 15, camera.zoom),
      CameraChange("rotation", camera.rotation - 30, camera.zoom),
      CameraChange("rotation", camera.rotation + 30, camera.zoom),
      CameraChange("zoom", 0, FracTimes(camera.zoom, Frac(5, 4))),
      CameraChange("zoom", 0, FracTimes(camera.zoom, Frac(4, 5))) }

\* mutation of ClampTilt: the upper limit is not applied
ClampTiltFromBelow(tilt) == Max(-45, tilt)

\* Math.max(-45, Math.min(45, tilt))
ClampTilt(tilt) == Max(-45, Min(45, tilt))

\* Math.max(0.5, Math.min(2.0, zoom))
ClampZoom(zoom) == FracMax(Frac(1, 2), FracMin(Frac(2, 1), zoom))

\* newCamera of handleUpdate / handleCameraUpdate of the modal
NewCamera(currentCamera, cameraChanges) ==
    [rotation |-> IF cameraChanges.field = "rotation" THEN cameraChanges.degrees
                  ELSE currentCamera.rotation,
     tilt |-> IF cameraChanges.field = "tilt" THEN ClampTilt(cameraChanges.degrees)
              ELSE currentCamera.tilt,
     zoom |-> IF cameraChanges.field = "zoom" THEN ClampZoom(cameraChanges.factor)
              ELSE currentCamera.zoom]

\* the modal is rendered
ModalShown == selectedSceneIndex /= 0 /\ selectedSceneIndex \in DOMAIN scenes

\* a click on the card of a scene that shows its image
SelectScene(index) ==
    /\ selectedSceneIndex = 0
    /\ index \in DOMAIN scenes
    /\ ~(scenes[index].isLoading /\ scenes[index].url = NoMark)
    /\ scenes[index].error = NoMark
    /\ scenes[index].url /= NoMark
    /\ selectedSceneIndex' = index
    /\ UNCHANGED <<scenePoints, style, scenes, isGenerating, batchNo, editNo, callsStarted,
                   inflight, expected, overlapped, callVars, renderVars, decadeVars,
                   pureVars, restVars>>

\* onClose
CloseModal ==
    /\ selectedSceneIndex /= 0
    /\ selectedSceneIndex' = 0
    /\ UNCHANGED <<scenePoints, style, scenes, isGenerating, batchNo, editNo, callsStarted,
                   inflight, expected, overlapped, callVars, renderVars, decadeVars,
                   pureVars, restVars>>

\* the updaters of handleCameraUpdate, for array position index
CameraStarted(prev, index) ==
    [i \in DOMAIN prev |->
        IF i = index THEN [prev[i] EXCEPT !.isLoading = TRUE, !.error = NoMark]
        ELSE prev[i]]

CameraSucceeded(prev, index, newImageUrl, newCamera) ==
    [i \in DOMAIN prev |->
        IF i = index
        THEN [prev[i] EXCEPT !.url = newImageUrl, !.camera = newCamera, !.isLoading = FALSE]
        ELSE prev[i]]

\* mutation of CameraFailed: the catch block also drops the image
CameraFailedDropsImage(prev, index, message) ==
    [i \in DOMAIN prev |->
        IF i = index
        THEN [prev[i] EXCEPT !.isLoading = FALSE, !.error = message, !.url = NoMark]
        ELSE prev[i]]

CameraFailed(prev, index, message) ==
    [i \in DOMAIN prev |->
        IF i = index THEN [prev[i] EXCEPT !.isLoading = FALSE, !.error = message]
        ELSE prev[i]]

\* a button of the modal: handleUpdate, then handleCameraUpdate of
\* Step3SceneGeneration up to its await
HandleCameraUpdate(cameraChanges) ==
    /\ ModalShown
    /\ ~scenes[selectedSceneIndex].isLoading
    /\ selectedSceneIndex <= scenePoints
    /\ callsStarted < MaxCalls
    /\ callsStarted' = callsStarted + 1
    /\ editNo' = editNo + 1
    /\ scenes' = CameraStarted(scenes, selectedSceneIndex)
    /\ inflight' = inflight \cup
         {CameraOp(batchNo, selectedSceneIndex, editNo + 1,
                   NewCamera(scenes[selectedSceneIndex].camera, cameraChanges),
                   scenes[selectedSceneIndex])}
    /\ expected' = [expected EXCEPT ![selectedSceneIndex] =
                       [@ EXCEPT !.isLoading = TRUE, !.error = NoMark]]
    /\ UNCHANGED <<scenePoints, style, isGenerating, batchNo, overlapped,
                   selectedSceneIndex, callVars, renderVars, decadeVars, pureVars, restVars>>

\* the awaited generateInteriorScene of a camera update settles
CameraSettles(op, ok) ==
    /\ op \in inflight
    /\ op.kind = "camera"
    /\ scenes' = IF ok
                 THEN CameraSucceeded(scenes, op.view,
                                      CameraUrl(op.batch, op.view, op.edit), op.camera)
                 ELSE CameraFailed(scenes, op.view, CameraError(op.batch, op.view, op.edit))
    /\ inflight' = inflight \ {op}
    /\ expected' = [expected EXCEPT ![op.view] =
                       IF ok THEN [@ EXCEPT !.url = CameraUrl(op.batch, op.view, op.edit),
                                            !.camera = op.camera, !.isLoading = FALSE]
                       ELSE [@ EXCEPT !.error = CameraError(op.batch, op.view, op.edit),
                                      !.isLoading = FALSE]]
    /\ UNCHANGED <<scenePoints, style, isGenerating, batchNo, editNo, callsStarted,
                   overlapped, selectedSceneIndex, callVars, renderVars, decadeVars,
                   pureVars, restVars>>

----------------------------------------------------------------------------
(* App: the wizard, with Step1Upload and Step2Rendering *)

\* an image: candidate cand of rendering call number call, or (cand = 0) the
\* file of upload number call; NoImage is '' (and the null of a failed read)
NoImage == [call |-> 0, cand |-> 0]
UploadedFile(k) == [call |-> k, cand |-> 0]
RenderingResult(k, j) == [call |-> k, cand |-> j]

\* the values of numberOfImages used
ImageCounts == {1, 2}

\* the useState initial values of Step2Rendering
FreshStep2 ==
    [renderedImage |-> NoImage, isGenerating |-> FALSE, showConfirmation |-> FALSE,
     showEditingControls |-> FALSE, isSelecting |-> FALSE, generatedOptions |-> 0,
     selectedCandidate |-> NoImage, imageHistory |-> <<>>]

\* a generateAIRendering call of Step2Rendering; live tells whether the
\* component instance that awaits it is still mounted
RenderingCall(k, n, kind) == [id |-> k, n |-> n, kind |-> kind, live |-> TRUE]

\* setCurrentStep(to): the step component shown is unmounted and loses its
\* local state, the one of the new step is mounted with initial state
SetCurrentStep(to) ==
    /\ currentStep' = to
    /\ step2' = IF currentStep = "step2" THEN FreshStep2 ELSE step2
    /\ renderings' = IF currentStep = "step2"
                     THEN {[c EXCEPT !.live = FALSE] : c \in renderings}
                     ELSE renderings
    /\ isGenerating' = IF currentStep = "step3" THEN FALSE ELSE isGenerating
    /\ selectedSceneIndex' = IF currentStep = "step3" THEN 0 ELSE selectedSceneIndex
    /\ mountedSince' = IF currentStep = "step3" THEN batchNo ELSE mountedSince

\* canGoNext
canGoNext ==
    CASE currentStep = "step1" -> uploadedImage /= NoImage
      [] currentStep = "step2" -> renderedImage /= NoImage
      [] currentStep = "step3" ->
            scenes /= <<>> /\ ~(\E i \in DOMAIN scenes : scenes[i].isLoading)
      [] OTHER -> FALSE

\* canGoPrev
canGoPrev == currentStep /= "step1" /\ currentStep /= "language"

\* handleLanguageSelect
HandleLanguageSelect ==
    /\ currentStep = "language"
    /\ SetCurrentStep("step1")
    /\ UNCHANGED <<scenePoints, style, scenes, batchNo, editNo, callsStarted, inflight,
                   expected, overlapped, uploadedImage, renderedImage, reads, uploadNo,
                   renderNo, callVars, renderVars, decadeVars, pureVars, laterVars>>

\* changeLanguage
ChangeLanguage ==
    /\ currentStep /= "language"
    /\ SetCurrentStep("language")
    /\ UNCHANGED <<scenePoints, style, scenes, batchNo, editNo, callsStarted, inflight,
                   expected, overlapped, uploadedImage, renderedImage, reads, uploadNo,
                   renderNo, callVars, renderVars, decadeVars, pureVars, laterVars>>

\* the Next button: goToNextStep
GoToNextStep ==
    /\ currentStep \in {"step1", "step2", "step3"}
    /\ canGoNext
    /\ \/ currentStep = "step1" /\ uploadedImage /= NoImage /\ SetCurrentStep("step2")
       \/ currentStep = "step2" /\ renderedImage /= NoImage /\ SetCurrentStep("step3")
       \/ currentStep = "step3" /\ Len(scenes) > 0 /\ SetCurrentStep("step4")
    /\ UNCHANGED <<scenePoints, style, scenes, batchNo, editNo, callsStarted, inflight,
                   expected, overlapped, uploadedImage, renderedImage, reads, uploadNo,
                   renderNo, callVars, renderVars, decadeVars, pureVars, laterVars>>

\* the Previous button: goToPrevStep
GoToPrevStep ==
    /\ canGoPrev
    /\ \/ currentStep = "step2" /\ SetCurrentStep("step1")
       \/ currentStep = "step3" /\ SetCurrentStep("step2")
       \/ currentStep = "step4" /\ SetCurrentStep("step3")
    /\ UNCHANGED <<scenePoints, style, scenes, batchNo, editNo, callsStarted, inflight,
                   expected, overlapped, uploadedImage, renderedImage, reads, uploadNo,
                   renderNo, callVars, renderVars, decadeVars, pureVars, laterVars>>

\* the Restart button: resetApp
ResetApp ==
    /\ currentStep \in {"step2", "step3", "step4"}
    /\ SetCurrentStep("step1")
    /\ uploadedImage' = NoImage
    /\ renderedImage' = NoImage
    /\ style' = ""
    /\ scenes' = <<>>
    /\ expected' = [v \in 1..MaxPoints |-> InitialScene(v, "")]
    /\ UNCHANGED <<scenePoints, batchNo, editNo, callsStarted, inflight,
                   overlapped, reads, uploadNo, renderNo, callVars, renderVars,
                   decadeVars, pureVars, laterVars>>

\* handleImageUpload
HandleImageUpload(imageUrl) ==
    /\ uploadedImage' = imageUrl
    /\ renderedImage' = NoImage
    /\ style' = ""
    /\ scenes' = <<>>
    /\ expected' = [v \in 1..MaxPoints |-> InitialScene(v, "")]

\* handleRenderingComplete
HandleRenderingComplete(renderedImageUrl) ==
    /\ renderedImage' = renderedImageUrl
    /\ style' = ""
    /\ scenes' = <<>>
    /\ expected' = [v \in 1..MaxPoints |-> InitialScene(v, "")]

\* handleFileUpload of Step1Upload: a file is chosen and its read starts
HandleFileUpload ==
    /\ currentStep = "step1"
    /\ callsStarted < MaxCalls
    /\ callsStarted' = callsStarted + 1
    /\ uploadNo' = uploadNo + 1
    /\ reads' = reads \cup {uploadNo + 1}
    /\ UNCHANGED <<scenePoints, style, scenes, isGenerating, batchNo, editNo, inflight,
                   expected, overlapped, selectedSceneIndex, currentStep, uploadedImage,
                   renderedImage, step2, renderings, renderNo, mountedSince, callVars,
                   renderVars, decadeVars, pureVars, laterVars>>

\* reader.onloadend: the read ended, with the data URL or (on error) null
ReaderLoadEnd(k, ok) ==
    /\ k \in reads
    /\ reads' = reads \ {k}
    /\ HandleImageUpload(IF ok THEN UploadedFile(k) ELSE NoImage)
    /\ UNCHANGED <<scenePoints, isGenerating, batchNo, editNo, callsStarted, inflight,
                   overlapped, selectedSceneIndex, currentStep, uploadNo, step2,
                   renderings, renderNo, mountedSince, callVars, renderVars, decadeVars,
                   pureVars, laterVars>>

\* what Step2Rendering leaves alone when it only changes its local state or
\* starts a call
Step2Frame ==
    UNCHANGED <<scenePoints, style, scenes, isGenerating, batchNo, editNo, inflight,
                expected, overlapped, selectedSceneIndex, currentStep, uploadedImage,
                renderedImage, reads, uploadNo, mountedSince, callVars, renderVars,
                decadeVars, pureVars, laterVars>>

\* the local state at the start of a generation
GenerationStarted(local) ==
    [local EXCEPT !.isGenerating = TRUE, !.isSelecting = FALSE,
                  !.generatedOptions = 0, !.selectedCandidate = NoImage]

\* handleInitialGeneration up to its await
InitialGeneration(local, n) ==
    IF uploadedImage = NoImage
    THEN step2' = local /\ UNCHANGED <<renderings, renderNo, callsStarted>>
    ELSE /\ step2' = [GenerationStarted(local) EXCEPT !.showConfirmation = FALSE,
                                                       !.showEditingControls = FALSE]
         /\ renderNo' = renderNo + 1
         /\ callsStarted' = callsStarted + 1
         /\ renderings' = renderings \cup {RenderingCall(renderNo + 1, n, "initial")}

\* the Generate button of Step2Rendering
HandleInitialGeneration(n) ==
    /\ currentStep = "step2"
    /\ ~step2.isGenerating /\ ~step2.isSelecting /\ step2.renderedImage = NoImage
    /\ uploadedImage /= NoImage
    /\ callsStarted < MaxCalls
    /\ InitialGeneration(step2, n)
    /\ Step2Frame

\* acceptRendering
AcceptRendering ==
    /\ currentStep = "step2"
    /\ step2.showConfirmation /\ ~step2.isSelecting
    /\ step2' = [step2 EXCEPT !.showConfirmation = FALSE, !.showEditingControls = TRUE]
    /\ UNCHANGED <<renderings, renderNo, callsStarted>>
    /\ Step2Frame

\* rejectRendering
RejectRendering(n) ==
    /\ currentStep = "step2"
    /\ step2.showConfirmation /\ ~step2.isSelecting
    /\ callsStarted < MaxCalls
    /\ InitialGeneration([step2 EXCEPT !.showConfirmation = FALSE, !.imageHistory = <<>>],
                         n)
    /\ Step2Frame

\* applyAutoMaterial (handleDollhouseGeneration and submitCorrection alike) up
\* to its await
ApplyAutoMaterial(n) ==
    /\ currentStep = "step2"
    /\ step2.showEditingControls /\ ~step2.isSelecting /\ ~step2.isGenerating
    /\ callsStarted < MaxCalls
    /\ step2' = GenerationStarted(step2)
    /\ renderNo' = renderNo + 1
    /\ callsStarted' = callsStarted + 1
    /\ renderings' = renderings \cup {RenderingCall(renderNo + 1, n, "material")}
    /\ Step2Frame

\* mutation of RenderingSettled: the image replaced by a single result is not
\* added to imageHistory
RenderingSettledNoHistory(local, c, ok) ==
    IF ~ok THEN [local EXCEPT !.isGenerating = FALSE]
    ELSE IF c.n /= 1
    THEN [local EXCEPT !.generatedOptions = c.id, !.isSelecting = TRUE,
                       !.isGenerating = FALSE]
    ELSE IF c.kind = "initial"
    THEN [local EXCEPT !.renderedImage = RenderingResult(c.id, 1),
                       !.showConfirmation = TRUE, !.isGenerating = FALSE]
    ELSE [local EXCEPT !.renderedImage = RenderingResult(c.id, 1),
                       !.isGenerating = FALSE]

\* the local state after the awaited call c settled
RenderingSettled(local, c, ok) ==
    IF ~ok THEN [local EXCEPT !.isGenerating = FALSE]
    ELSE IF c.n /= 1
    THEN [local EXCEPT !.generatedOptions = c.id, !.isSelecting = TRUE,
                       !.isGenerating = FALSE]
    ELSE IF c.kind = "initial"
    THEN [local EXCEPT !.renderedImage = RenderingResult(c.id, 1),
                       !.showConfirmation = TRUE, !.isGenerating = FALSE]
    ELSE [local EXCEPT !.imageHistory = IF local.renderedImage /= NoImage
                                        THEN Append(@, local.renderedImage) ELSE @,
                       !.renderedImage = RenderingResult(c.id, 1),
                       !.isGenerating = FALSE]

\* a generateAIRendering call of Step2Rendering settles: the rest of the
\* handler runs, whether or not its component is still mounted
RenderingSettles(c, ok) ==
    /\ c \in renderings
    /\ renderings' = renderings \ {c}
    /\ step2' = IF c.live THEN RenderingSettled(step2, c, ok) ELSE step2
    /\ IF ok /\ c.n = 1
       THEN HandleRenderingComplete(RenderingResult(c.id, 1))
       ELSE UNCHANGED <<renderedImage, style, scenes, expected>>
    /\ UNCHANGED <<scenePoints, isGenerating, batchNo, editNo, callsStarted, inflight,
                   overlapped, selectedSceneIndex, currentStep, uploadedImage,
                   reads, uploadNo, renderNo, mountedSince, callVars, renderVars,
                   decadeVars, pureVars, laterVars>>

\* previewSelection
PreviewSelection(j) ==
    /\ currentStep = "step2"
    /\ step2.isSelecting
    /\ step2.selectedCandidate = NoImage
    /\ step2' = [step2 EXCEPT
                    !.selectedCandidate = RenderingResult(step2.generatedOptions, j)]
    /\ UNCHANGED <<renderings, renderNo, callsStarted>>
    /\ Step2Frame

\* cancelSelection
CancelSelection ==
    /\ currentStep = "step2"
    /\ step2.isSelecting
    /\ step2.selectedCandidate /= NoImage
    /\ step2' = [step2 EXCEPT !.selectedCandidate = NoImage]
    /\ UNCHANGED <<renderings, renderNo, callsStarted>>
    /\ Step2Frame

\* whether url is among the images of history h
InHistory(h, url) == \E i \in DOMAIN h : h[i] = url

\* confirmSelection
ConfirmSelection ==
    /\ currentStep = "step2"
    /\ step2.isSelecting
    /\ step2.selectedCandidate /= NoImage
    /\ step2' = [step2 EXCEPT
                    !.imageHistory =
                        IF step2.renderedImage /= NoImage
                           /\ ~InHistory(step2.imageHistory, step2.renderedImage)
                        THEN Append(@, step2.renderedImage) ELSE @,
                    !.renderedImage = step2.selectedCandidate,
                    !.generatedOptions = 0,
                    !.isSelecting = FALSE,
                    !.selectedCandidate = NoImage,
                    !.showConfirmation = FALSE,
                    !.showEditingControls = TRUE]
    /\ HandleRenderingComplete(step2.selectedCandidate)
    /\ UNCHANGED <<scenePoints, isGenerating, batchNo, editNo, callsStarted, inflight,
                   overlapped, selectedSceneIndex, currentStep, uploadedImage,
                   reads, uploadNo, renderings, renderNo, mountedSince, callVars,
                   renderVars, decadeVars, pureVars, laterVars>>

\* the local state restorePrevious sets
restorePrevious(local) ==
    IF local.imageHistory = <<>> THEN local
    ELSE [local EXCEPT
             !.renderedImage = local.imageHistory[Len(local.imageHistory)],
             !.imageHistory = SubSeq(@, 1, Len(@) - 1)]

\* restorePrevious
RestorePrevious ==
    /\ currentStep = "step2"
    /\ step2.showEditingControls /\ ~step2.isSelecting
    /\ step2.imageHistory /= <<>> /\ ~step2.isGenerating
    /\ step2' = restorePrevious(step2)
    /\ HandleRenderingComplete(step2.imageHistory[Len(step2.imageHistory)])
    /\ UNCHANGED <<scenePoints, isGenerating, batchNo, editNo, callsStarted, inflight,
                   overlapped, selectedSceneIndex, currentStep, uploadedImage,
                   reads, uploadNo, renderings, renderNo, mountedSince, callVars,
                   renderVars, decadeVars, pureVars, laterVars>>

\* a generateInteriorScene call settles whose batch was started by a
\* Step3SceneGeneration that is unmounted by now: the updaters of App's
\* generatedScenes run, setIsGenerating of the old component does nothing
GenSettlesUnmounted(op, ok) ==
    /\ op \in inflight
    /\ op.kind = "gen"
    /\ op.batch <= mountedSince
    /\ scenes' = IF ok THEN GenSucceeded(scenes, op.view, GenUrl(op.batch, op.view))
                 ELSE GenFailed(scenes, op.view, GenError(op.batch, op.view))
    /\ inflight' = inflight \ {op}
    /\ expected' = [expected EXCEPT ![op.view] =
                       IF ok THEN [@ EXCEPT !.url = GenUrl(op.batch, op.view),
                                            !.originalUrl = GenUrl(op.batch, op.view),
                                            !.isLoading = FALSE]
                       ELSE [@ EXCEPT !.error = GenError(op.batch, op.view),
                                      !.isLoading = FALSE]]
    /\ UNCHANGED <<scenePoints, style, isGenerating, batchNo, editNo, callsStarted,
                   overlapped, selectedSceneIndex, callVars, renderVars, decadeVars,
                   pureVars, restVars>>

----------------------------------------------------------------------------
(* Step5Presentation: presentation text, themes and slide regeneration *)

\* two of the themes; SlideThemes[1] is themes[0], the initial selectedTheme
SlideThemes == <<"themeModernBlue", "themeEarthTones">>

\* presentationText is null
NoText == <<>>

\* completedScenes of Step5Presentation: the scenes that have an image
HasImage(scene) == scene.url /= NoMark
completedScenes == SelectSeq(scenes, HasImage)

\* the slide positions: title, concept, one per completed scene, conclusion
SlideCount(n) == n + 3
SlideKind(i, n) ==
    IF i = 1 THEN "title"
    ELSE IF i = 2 THEN "concept"
    ELSE IF i = SlideCount(n) THEN "conclusion"
    ELSE "viewpoint"

\* the text generatePresentationText returns: version 0 of every slide's text
FetchedText(n) == [i \in 1..SlideCount(n) |-> 0]

\* a generateSlides call: the text object, its theme, and for every slide the
\* versions of its text the call can find when it draws the slide (the
\* viewpointDetails array is shared with later text objects)
Regeneration(k, text, theme) ==
    [id |-> k, text |-> text, theme |-> theme,
     seen |-> [i \in DOMAIN text |-> {text[i]}]]

\* mutation of generateSlides: only the slide whose text differs from the one
\* displayed is drawn again
generateSlidesEditedOnly(old, text, theme) ==
    [i \in DOMAIN text |->
        IF i \in DOMAIN old /\ old[i].text = text[i] THEN old[i]
        ELSE [text |-> text[i], theme |-> theme]]

\* generateSlides: one image per slide generator, drawn from text and theme
\* (old is the set displayed before, which the function does not use)
generateSlides(old, text, theme) ==
    [i \in DOMAIN text |-> [text |-> text[i], theme |-> theme]]

\* regenerateAllSlides up to its await, as run by the effect on
\* presentationText / selectedTheme
RegenerateAllSlides(text, theme) ==
    /\ isGeneratingSlides' = TRUE
    /\ regenNo' = regenNo + 1
    /\ regens' = regens \cup {Regeneration(regenNo + 1, text, theme)}

\* the grid of slides with its Edit buttons is shown
GridShown == ~isLoadingText /\ ~slideError /\ ~isGeneratingSlides

\* generatePresentationText settles (the fetch started when the component
\* was mounted); on success the effect starts the first regeneration
TextFetchSettles(ok) ==
    /\ isLoadingText
    /\ isLoadingText' = FALSE
    /\ IF ok
       THEN /\ presentationText' = FetchedText(Len(completedScenes))
            /\ slideError' = slideError
            /\ RegenerateAllSlides(FetchedText(Len(completedScenes)), selectedTheme)
       ELSE /\ slideError' = TRUE
            /\ UNCHANGED <<presentationText, isGeneratingSlides, regens, regenNo>>
    /\ UNCHANGED <<slideImages, selectedTheme, editingSlide,
                   callVars, renderVars, sceneVars, decadeVars, pureVars, wizardVars, rendererVars, ideaVars>>

\* a theme button: setSelectedTheme(theme), and the effect it triggers
SetSelectedTheme(theme) ==
    /\ theme /= selectedTheme
    /\ selectedTheme' = theme
    /\ IF presentationText /= NoText
       THEN /\ regenNo < MaxRegens
            /\ RegenerateAllSlides(presentationText, theme)
       ELSE UNCHANGED <<isGeneratingSlides, regens, regenNo>>
    /\ UNCHANGED <<presentationText, slideImages, isLoadingText,
                   slideError, editingSlide,
                   callVars, renderVars, sceneVars, decadeVars, pureVars, wizardVars, rendererVars, ideaVars>>

\* handleEdit(slideIndex) of Step5Presentation (named after the component,
\* Step4SceneEditing has a handleEdit too)
HandleEditSlide(slideIndex) ==
    /\ GridShown
    /\ editingSlide = 0
    /\ slideIndex \in DOMAIN slideImages
    /\ presentationText /= NoText
    /\ slideIndex \in DOMAIN presentationText
    /\ editingSlide' = slideIndex
    /\ UNCHANGED <<presentationText, slideImages, isLoadingText,
                   isGeneratingSlides, slideError, selectedTheme, regens, regenNo,
                   callVars, renderVars, sceneVars, decadeVars, pureVars, wizardVars, rendererVars, ideaVars>>

\* onClose of EditSlideModal
CloseEditSlideModal ==
    /\ editingSlide /= 0
    /\ editingSlide' = 0
    /\ UNCHANGED <<presentationText, slideImages, isLoadingText,
                   isGeneratingSlides, slideError, selectedTheme, regens, regenNo,
                   callVars, renderVars, sceneVars, decadeVars, pureVars, wizardVars, rendererVars, ideaVars>>

\* newText of handleSave: the text of slide slideIndex becomes version
NewText(text, slideIndex, version) == [text EXCEPT ![slideIndex] = version]

\* the calls in flight after handleSave wrote a viewpoint's text into the
\* shared viewpointDetails array: they can find the new version
SharedViewpointDetails(calls, slideIndex, version) ==
    IF SlideKind(slideIndex, Len(completedScenes)) = "viewpoint"
    THEN {[c EXCEPT !.seen[slideIndex] = @ \cup {version}] : c \in calls}
    ELSE calls

\* the Save button of EditSlideModal: handleSave of the modal, handleSave of
\* Step5Presentation, onClose, and the effect on presentationText
HandleSave ==
    /\ editingSlide /= 0
    /\ presentationText /= NoText
    /\ regenNo < MaxRegens
    /\ presentationText' = NewText(presentationText, editingSlide, regenNo + 1)
    /\ editingSlide' = 0
    /\ isGeneratingSlides' = TRUE
    /\ regenNo' = regenNo + 1
    /\ regens' = SharedViewpointDetails(regens, editingSlide, regenNo + 1)
                    \cup {Regeneration(regenNo + 1, presentationText', selectedTheme)}
    /\ UNCHANGED <<slideImages, isLoadingText, slideError, selectedTheme,
                   callVars, renderVars, sceneVars, decadeVars, pureVars, wizardVars, rendererVars, ideaVars>>

\* the texts a call can have drawn its slides from
DrawnTexts(c) == {t \in [DOMAIN c.text -> UNION {c.seen[i] : i \in DOMAIN c.text}] :
                     \A i \in DOMAIN c.text : t[i] \in c.seen[i]}

\* the awaited generateSlides of call c settles
RegenSettles(c, ok, drawn) ==
    /\ c \in regens
    /\ drawn \in DrawnTexts(c)
    /\ regens' = regens \ {c}
    /\ isGeneratingSlides' = FALSE
    /\ IF ok
       THEN slideImages' = generateSlides(slideImages, drawn, c.theme)
            /\ slideError' = slideError
       ELSE slideImages' = slideImages /\ slideError' = TRUE
    /\ UNCHANGED <<presentationText, isLoadingText, selectedTheme,
                   editingSlide, regenNo,
                   callVars, renderVars, sceneVars, decadeVars, pureVars, wizardVars, rendererVars, ideaVars>>

----------------------------------------------------------------------------
(* presentationUtils: text wrapping, text fitting and image cropping.
   The repository holds two versions: the one of createPresentationSlides
   (getLines, drawTextWithDynamicSize, drawViewpointSlide, drawConclusionSlide)
   and the one of generateSlides (getLines, drawTextWithAutoSize,
   drawFullBleedImage). *)

NoJob == [kind |-> "none"]
Blank == [op |-> "none"]

\* the characters of a text: a Latin letter, a space, a line feed, an
\* ideograph of U+4E00..U+9FA5, and a CJK character outside that range
\* (hiragana U+3042)
Latin == "a"
Space == " "
LineFeed == "\n"
Ideograph == "U+4E2D"
Kana == "U+3042"
Chars == {Latin, Space, LineFeed, Ideograph, Kana}
CJK == {Ideograph, Kana}

\* /[\u4E00-\u9FA5]/.test(text)
hasChinese(text) == \E i \in DOMAIN text : text[i] = Ideograph

\* ctx.measureText(line).width at font size fontSize: a CJK character is as
\* wide as the font size, any other character half of it
RECURSIVE measureText(_, _)
measureText(line, fontSize) ==
    IF line = <<>> THEN 0
    ELSE (IF Head(line) \in CJK THEN fontSize ELSE fontSize \div 2)
           + measureText(Tail(line), fontSize)

\* text.split(separator)
RECURSIVE Split(_, _)
Split(text, separator) ==
    IF \A i \in DOMAIN text : text[i] /= separator THEN <<text>>
    ELSE LET i == CHOOSE k \in DOMAIN text :
                     /\ text[k] = separator
                     /\ \A m \in 1..(k - 1) : text[m] /= separator
         IN <<SubSeq(text, 1, i - 1)>> \o Split(SubSeq(text, i + 1, Len(text)), separator)

\* the loop over the characters of a paragraph: the lines pushed so far and
\* currentLine
RECURSIVE WrapChars(_, _, _, _, _)
WrapChars(rest, currentLine, lines, fontSize, maxWidth) ==
    IF rest = <<>> THEN [lines |-> lines, currentLine |-> currentLine]
    ELSE LET testLine == Append(currentLine, Head(rest))
         IN IF measureText(testLine, fontSize) > maxWidth /\ currentLine /= <<>>
            THEN WrapChars(Tail(rest), <<Head(rest)>>, Append(lines, currentLine),
                           fontSize, maxWidth)
            ELSE WrapChars(Tail(rest), testLine, lines, fontSize, maxWidth)

\* the loop over the words of a paragraph; skipEmpty is the
\* `if (!word) continue` of the createPresentationSlides version
RECURSIVE WrapWords(_, _, _, _, _, _)
WrapWords(words, currentLine, lines, fontSize, maxWidth, skipEmpty) ==
    IF words = <<>> THEN [lines |-> lines, currentLine |-> currentLine]
    ELSE IF skipEmpty /\ Head(words) = <<>>
    THEN WrapWords(Tail(words), currentLine, lines, fontSize, maxWidth, skipEmpty)
    ELSE LET testLine == IF currentLine = <<>> THEN Head(words)
                         ELSE currentLine \o <<Space>> \o Head(words)
         IN IF measureText(testLine, fontSize) > maxWidth /\ currentLine /= <<>>
            THEN WrapWords(Tail(words), Head(words), Append(lines, currentLine),
                           fontSize, maxWidth, skipEmpty)
            ELSE WrapWords(Tail(words), testLine, lines, fontSize, maxWidth, skipEmpty)

\* getLines of the generateSlides version: the loop over the paragraphs
RECURSIVE WrapParagraphs(_, _, _, _)
WrapParagraphs(paragraphs, byChar, fontSize, maxWidth) ==
    IF paragraphs = <<>> THEN <<>>
    ELSE LET paragraph == Head(paragraphs)
             w == IF byChar
                  THEN WrapChars(paragraph, <<>>, <<>>, fontSize, maxWidth)
                  ELSE WrapWords(Split(paragraph, Space), <<>>, <<>>, fontSize, maxWidth,
                                 FALSE)
         IN (IF paragraph = <<>> THEN <<paragraph>>
             ELSE Append(w.lines, w.currentLine))
              \o WrapParagraphs(Tail(paragraphs), byChar, fontSize, maxWidth)

\* getLines of the generateSlides version
getLines(text, fontSize, maxWidth) ==
    IF text = <<>> THEN <<>>
    ELSE WrapParagraphs(Split(text, LineFeed), hasChinese(text), fontSize, maxWidth)

\* the character loop of the createPresentationSlides version, which handles
\* the line feed itself
RECURSIVE WrapCharsDynamic(_, _, _, _, _)
WrapCharsDynamic(rest, currentLine, lines, fontSize, maxWidth) ==
    IF rest = <<>> THEN [lines |-> lines, currentLine |-> currentLine]
    ELSE IF Head(rest) = LineFeed
    THEN WrapCharsDynamic(Tail(rest), <<>>, Append(lines, currentLine), fontSize, maxWidth)
    ELSE LET testLine == Append(currentLine, Head(rest))
         IN IF measureText(testLine, fontSize) > maxWidth /\ currentLine /= <<>>
            THEN WrapCharsDynamic(Tail(rest), <<Head(rest)>>, Append(lines, currentLine),
                                  fontSize, maxWidth)
            ELSE WrapCharsDynamic(Tail(rest), testLine, lines, fontSize, maxWidth)

\* getLines of the createPresentationSlides version
getLinesDynamic(text, fontSize, maxWidth) ==
    IF text = <<>> THEN <<>>
    ELSE LET w == IF hasChinese(text)
                  THEN WrapCharsDynamic(text, <<>>, <<>>, fontSize, maxWidth)
                  ELSE WrapWords(Split(text, Space), <<>>, <<>>, fontSize, maxWidth, TRUE)
         IN IF w.currentLine /= <<>> THEN Append(w.lines, w.currentLine) ELSE w.lines

\* `fontSize -= 2`
fontStep == 2
\* `while (fontSize > 10)` of drawTextWithAutoSize
autoSizeFloor == 10

\* n lines of height lineHeight (a fraction) are at most maxHeight high
BlockFits(n, lineHeight, maxHeight) ==
    ~FracLess(Frac(maxHeight, 1), FracTimes(Frac(n, 1), lineHeight))
\* mutation of the test of the truncating loop: every line is drawn
BlockAny(n, lineHeight, maxHeight) == n > 0
\* n lines of height lineHeight are less than maxHeight high
BlockBelow(n, lineHeight, maxHeight) ==
    FracLess(FracTimes(Frac(n, 1), lineHeight), Frac(maxHeight, 1))

\* what a text drawing leaves on the canvas: the font size, the line height,
\* the wrapped lines and the indexes of the lines given to fillText
Drawing(fontSize, lineHeight, lines, filled) ==
    [fontSize |-> fontSize, lineHeight |-> lineHeight, lines |-> lines, filled |-> filled]

\* mutation of drawTextWithDynamicSize: every other size is skipped
RECURSIVE DynamicSizeSkipping(_, _)
DynamicSizeSkipping(o, fontSize) ==
    IF fontSize >= o.minFontSize
    THEN LET lineHeight == FracTimes(Frac(fontSize, 1), o.lineHeightRatio)
             lines == getLinesDynamic(o.text, fontSize, o.maxWidth)
         IN IF BlockFits(Len(lines), lineHeight, o.maxHeight)
            THEN Drawing(fontSize, lineHeight, lines, DOMAIN lines)
            ELSE DynamicSizeSkipping(o, fontSize - 2 * fontStep)
    ELSE LET lineHeight == FracTimes(Frac(o.minFontSize, 1), o.lineHeightRatio)
             lines == getLinesDynamic(o.text, o.minFontSize, o.maxWidth)
         IN Drawing(o.minFontSize, lineHeight, lines, {})

\* drawTextWithDynamicSize from the iteration at fontSize on
RECURSIVE DynamicSize(_, _)
DynamicSize(o, fontSize) ==
    IF fontSize >= o.minFontSize
    THEN LET lineHeight == FracTimes(Frac(fontSize, 1), o.lineHeightRatio)
             lines == getLinesDynamic(o.text, fontSize, o.maxWidth)
         IN IF BlockFits(Len(lines), lineHeight, o.maxHeight)
            THEN Drawing(fontSize, lineHeight, lines, DOMAIN lines)
            ELSE DynamicSize(o, fontSize - fontStep)
    ELSE LET lineHeight == FracTimes(Frac(o.minFontSize, 1), o.lineHeightRatio)
             lines == getLinesDynamic(o.text, o.minFontSize, o.maxWidth)
         IN Drawing(o.minFontSize, lineHeight, lines,
                    {index \in DOMAIN lines : BlockBelow(index, lineHeight, o.maxHeight)})

drawTextWithDynamicSize(o) == DynamicSize(o, o.initialFontSize)

\* mutation of drawTextWithAutoSize: the text is drawn at the first size
AutoSizeNoShrink(o, fontSize) ==
    LET lines == getLines(o.text, fontSize, o.maxWidth)
    IN  Drawing(fontSize, FracTimes(o.lineHeight, Frac(fontSize, o.initialFontSize)),
                lines, DOMAIN lines)

\* drawTextWithAutoSize from the iteration at fontSize on; the line height
\* is lineHeight * (fontSize / baseFontSize)
RECURSIVE AutoSize(_, _)
AutoSize(o, fontSize) ==
    LET currentLineHeight ==
            FracTimes(o.lineHeight, Frac(fontSize, o.initialFontSize))
        lines == getLines(o.text, fontSize, o.maxWidth)
    IN  IF fontSize > autoSizeFloor
        THEN IF BlockFits(Len(lines), currentLineHeight, o.maxHeight)
             THEN Drawing(fontSize, currentLineHeight, lines, DOMAIN lines)
             ELSE AutoSize(o, fontSize - fontStep)
        ELSE Drawing(fontSize, currentLineHeight, lines,
                     {k \in DOMAIN lines :
                         \A j \in 1..(k - 1) :
                             BlockFits(j + 1, currentLineHeight, o.maxHeight)})

drawTextWithAutoSize(o) == AutoSize(o, o.initialFontSize)

\* the texts, boxes and fonts the functions are called with, scaled down.
\* As at the call sites, the font sizes are even, no box height is a multiple
\* of the line height at the smallest font size, and the boxes of
\* drawTextWithAutoSize are at least one such line high (those of
\* drawTextWithDynamicSize can be lower: conceptSpacing shrinks with the
\* number of concepts).
Texts == UNION {[1..n -> Chars] : n \in 0..MaxText}
MaxWidths == {12, 30}
DynamicHeights == {8, 25, 36}
AutoHeights == {16, 25, 36}
FontSizes == {10, 12, 14}
LineHeightRatios == {Frac(1, 1), Frac(3, 2)}

\* the options of drawTextWithDynamicSize
DynamicJobs ==
    {[kind |-> "dynamic", text |-> t, maxWidth |-> w, maxHeight |-> h,
      initialFontSize |-> f, minFontSize |-> autoSizeFloor, lineHeightRatio |-> r] :
        t \in Texts, w \in MaxWidths, h \in DynamicHeights, f \in FontSizes,
        r \in LineHeightRatios}

\* the arguments of drawTextWithAutoSize: the size in baseFont and lineHeight
AutoJobs ==
    {[kind |-> "auto", text |-> t, maxWidth |-> w, maxHeight |-> h,
      initialFontSize |-> f, lineHeight |-> FracTimes(Frac(f, 1), r)] :
        t \in Texts, w \in MaxWidths, h \in AutoHeights, f \in FontSizes,
        r \in LineHeightRatios}

\* the region an image is drawn onto: the slide, or the left part of the
\* conclusion slide (SLIDE_WIDTH * 0.55)
SlideRegion == [width |-> 1920, height |-> 1080]
ConclusionRegion == [width |-> 1056, height |-> 1080]

FracMinus(a, b) == Frac(a.num * b.den - b.num * a.den, a.den * b.den)
FracHalf(a) == Frac(a.num, 2 * a.den)

\* mutation of the crop: the source rectangle starts at the image's corner
CropFromCorner(image, region) ==
    LET aspect == Frac(region.width, region.height)
    IN [sx |-> Frac(0, 1), sy |-> Frac(0, 1),
        sw |-> FracMin(Frac(image.width, 1), FracTimes(Frac(image.height, 1), aspect)),
        sh |-> FracMin(Frac(image.height, 1),
                       FracTimes(Frac(image.width, 1), Frac(region.height, region.width))),
        dx |-> 0, dy |-> 0, dw |-> region.width, dh |-> region.height]

\* the arguments of ctx.drawImage computed by drawFullBleedImage,
\* drawViewpointSlide and drawConclusionSlide
Crop(image, region) ==
    LET sAspect == Frac(image.width, image.height)
        dAspect == Frac(region.width, region.height)
        sWidth == Frac(image.width, 1)
        sHeight == Frac(image.height, 1)
    IN IF FracLess(dAspect, sAspect)
       THEN LET sw == FracTimes(sHeight, dAspect)
            IN [sx |-> FracHalf(FracMinus(sWidth, sw)), sy |-> Frac(0, 1),
                sw |-> sw, sh |-> sHeight,
                dx |-> 0, dy |-> 0, dw |-> region.width, dh |-> region.height]
       ELSE LET sh == FracTimes(sWidth, Frac(region.height, region.width))
            IN [sx |-> Frac(0, 1), sy |-> FracHalf(FracMinus(sHeight, sh)),
                sw |-> sWidth, sh |-> sh,
                dx |-> 0, dy |-> 0, dw |-> region.width, dh |-> region.height]

CropJobs ==
    {[kind |-> "image", width |-> w, height |-> h] : w \in 1..MaxSide, h \in 1..MaxSide}

Jobs == DynamicJobs \cup AutoJobs \cup CropJobs

RendererFrame ==
    UNCHANGED <<job, callVars, renderVars, sceneVars, decadeVars, pureVars, wizardVars,
                slideVars, ideaVars>>

GetLinesDynamic ==
    /\ job.kind = "dynamic" /\ canvas = Blank
    /\ canvas' = [op |-> "getLines",
                  lines |-> getLinesDynamic(job.text, job.initialFontSize, job.maxWidth)]
    /\ RendererFrame

GetLines ==
    /\ job.kind = "auto" /\ canvas = Blank
    /\ canvas' = [op |-> "getLines",
                  lines |-> getLines(job.text, job.initialFontSize, job.maxWidth)]
    /\ RendererFrame

DrawTextWithDynamicSize ==
    /\ job.kind = "dynamic" /\ canvas = Blank
    /\ canvas' = [op |-> "text", text |-> drawTextWithDynamicSize(job)]
    /\ RendererFrame

DrawTextWithAutoSize ==
    /\ job.kind = "auto" /\ canvas = Blank
    /\ canvas' = [op |-> "text", text |-> drawTextWithAutoSize(job)]
    /\ RendererFrame

DrawFullBleedImage ==
    /\ job.kind = "image" /\ canvas = Blank
    /\ canvas' = [op |-> "image", region |-> SlideRegion, image |-> Crop(job, SlideRegion)]
    /\ RendererFrame

\* the image part of drawConclusionSlide
DrawConclusionSlide ==
    /\ job.kind = "image" /\ canvas = Blank
    /\ canvas' = [op |-> "image", region |-> ConclusionRegion,
                  image |-> Crop(job, ConclusionRegion)]
    /\ RendererFrame

----------------------------------------------------------------------------
(* presentationUtils: the slide deck of createPresentationSlides (part_003)
   and of generateSlides (part_004) *)

\* the largest number of scenes and of viewpointDetails entries
MaxDeck == 3

\* the (title, description) pairs the text service answers with; view is 0
\* for them and the viewIndex in the default pair of createPresentationSlides
ViewpointDetails ==
    { [title |-> "Living room", view |-> 0, description |-> "Warm and open."],
      [title |-> "Kitchen", view |-> 0, description |-> "Bright and tidy."] }

\* text.viewpointDetails[index] beyond the end of the array
Undefined == [title |-> "undefined", view |-> 0, description |-> "undefined"]
ItemAt(array, i) == IF i \in DOMAIN array THEN array[i] ELSE Undefined

\* details || { title: `Viewpoint ${scene.viewIndex}`, description: "This
\* viewpoint showcases ..." }
DefaultDetails(scene) ==
    [title |-> "Viewpoint", view |-> scene.viewIndex,
     description |-> "This viewpoint showcases the blend of functionality and style."]

\* the completed scenes 1..n, each with its own image
DeckScenes(n) == [i \in 1..n |-> [viewIndex |-> i, url |-> GenUrl(1, i)]]

DeckJobs ==
    { [kind |-> "deck", scenes |-> DeckScenes(n), viewpointDetails |-> details,
       theme |-> theme] :
        n \in 0..MaxDeck,
        details \in UNION {[1..d -> ViewpointDetails] : d \in 0..MaxDeck},
        theme \in {SlideThemes[1], SlideThemes[2]} }

TitleSlide(theme) == [kind |-> "title", theme |-> theme]
ConceptSlide(theme) == [kind |-> "concept", theme |-> theme]
ConclusionSlide(theme) == [kind |-> "conclusion", theme |-> theme]
ViewpointSlide(scene, detail, theme) ==
    [kind |-> "viewpoint", image |-> scene.url, detail |-> detail, theme |-> theme]

\* createPresentationSlides of part_003: a missing entry of viewpointDetails
\* is replaced by the default pair
createPresentationSlides(completed, text, theme) ==
    <<TitleSlide(theme), ConceptSlide(theme)>>
    \o [i \in DOMAIN completed |->
          LET details == IF ItemAt(text, i) /= Undefined THEN text[i]
                         ELSE DefaultDetails(completed[i])
          IN  ViewpointSlide(completed[i], details, theme)]
    \o <<ConclusionSlide(theme)>>

\* drawViewpointSlide of part_004 reads detail.title: a TypeError when detail
\* is undefined
ViewpointThrows(detail) == detail = Undefined

\* slideGenerators of generateSlides (part_004), and the loop that awaits
\* them in order: the first generator that throws rejects the whole call
slideGenerators(text, completed, theme) ==
    <<TitleSlide(theme), ConceptSlide(theme)>>
    \o [i \in DOMAIN completed |-> ViewpointSlide(completed[i], ItemAt(text, i), theme)]
    \o <<ConclusionSlide(theme)>>

GenerateSlidesResult(text, completed, theme) ==
    IF \E i \in DOMAIN completed : ViewpointThrows(ItemAt(text, i))
    THEN [op |-> "rejected", by |-> "generateSlides"]
    ELSE [op |-> "slides", by |-> "generateSlides",
          slides |-> slideGenerators(text, completed, theme)]

CreatePresentationSlides ==
    /\ job.kind = "deck" /\ canvas = Blank
    /\ canvas' = [op |-> "slides", by |-> "createPresentationSlides",
                  slides |-> createPresentationSlides(job.scenes, job.viewpointDetails,
                                                      job.theme)]
    /\ RendererFrame

GenerateSlides ==
    /\ job.kind = "deck" /\ canvas = Blank
    /\ canvas' = GenerateSlidesResult(job.viewpointDetails, job.scenes, job.theme)
    /\ RendererFrame

----------------------------------------------------------------------------
(* Step5Presentation: handleSave on the fields of PresentationText *)

\* what the two inputs of EditSlideModal can hold
ModalStrings == {<<>>, <<Latin>>, <<Latin, LineFeed, Latin>>}

\* an entry of viewpointDetails, and an empty slot of the array
Detail(title, description) == [title |-> title, description |-> description]
Hole == [hole |-> TRUE]
DetailAt(text, i) ==
    IF i \in DOMAIN text.viewpointDetails THEN text.viewpointDetails[i] ELSE Hole

\* the texts the service answers with for n scenes; viewpointDetails may be
\* shorter than the list of scenes
PresentationTexts(n) ==
    { [presentationTitle |-> <<Latin>>, conceptTitle |-> <<Latin>>,
       mainConcepts |-> concepts, viewpointDetails |-> details,
       conclusionTitle |-> <<Latin>>, conclusion |-> <<Latin>>] :
        concepts \in {<< <<Latin>> >>, << <<Latin>>, <<Latin, Space, Latin>> >>},
        details \in UNION {[1..d -> {Detail(<<Latin>>, <<Latin>>),
                                     Detail(<<>>, <<Latin, Space, Latin>>)}] :
                              d \in 0..n} }

\* the Save button of the modal on slide slideIndex (1 is the title slide)
SaveJobsOf(n) ==
    { [kind |-> "save", text |-> text, completed |-> n, slideIndex |-> k,
       title |-> title, description |-> description] :
        text \in PresentationTexts(n), k \in 1..SlideCount(n),
        title \in ModalStrings, description \in ModalStrings }
SaveJobs == UNION {SaveJobsOf(n) : n \in 1..MaxDeck}

\* mutation of SetDetail: the entries after the one written are dropped
SetDetailTruncating(details, i, detail) ==
    [j \in 1..i |->
        IF j = i THEN detail
        ELSE IF j \in DOMAIN details THEN details[j] ELSE Hole]

\* newText.viewpointDetails[viewpointIndex] = {...}: an index beyond the end
\* of the array leaves empty slots before it
SetDetail(details, i, detail) ==
    [j \in 1..Max(Len(details), i) |->
        IF j = i THEN detail
        ELSE IF j \in DOMAIN details THEN details[j] ELSE Hole]

\* handleSave of Step5Presentation, given the type of slide slideIndex in
\* allSlideData and the content EditSlideModal passes (title || undefined,
\* then title || '', is the title itself)
handleSave(text, completed, slideIndex, title, description) ==
    LET type == SlideKind(slideIndex, completed) IN
    IF type = "title"
    THEN [text EXCEPT !.presentationTitle = description]
    ELSE IF type = "concept"
    THEN [text EXCEPT !.conceptTitle = title,
                      !.mainConcepts = Split(description, LineFeed)]
    ELSE IF type = "viewpoint"
    THEN [text EXCEPT !.viewpointDetails =
              SetDetail(@, slideIndex - 2, Detail(title, description))]
    ELSE [text EXCEPT !.conclusionTitle = title, !.conclusion = description]

SaveSlide ==
    /\ job.kind = "save" /\ canvas = Blank
    /\ canvas' = [op |-> "saved",
                  text |-> handleSave(job.text, job.completed, job.slideIndex,
                                      job.title, job.description)]
    /\ RendererFrame

----------------------------------------------------------------------------
(* geminiService: suggestStyleIdeas *)

NoIdeasCall == [kind |-> "none"]
Pending == [status |-> "pending"]

\* the elements of an answered array: two style names and a number
StyleNames == {"Modern", "Coastal"}
Elements == StyleNames \cup {"7"}
IsString(element) == element \in StyleNames

\* what generateContent does: it rejects, or it resolves with a response
\* without text, with a text that is not JSON, with the JSON of an object, or
\* with the JSON of an array
IdeasResponses ==
    {[kind |-> k] : k \in {"rejected", "noText", "notJson", "object"}}
      \cup {[kind |-> "array", elements |-> a] :
              a \in UNION {[1..n -> Elements] : n \in 0..MaxStyles}}

\* the fallback list of the catch block
fallbackStyles ==
    <<"Modern Minimalist", "Scandinavian", "Industrial Loft", "Bohemian Chic",
      "Coastal", "Japanese Zen">>

\* styles.slice(0, end)
Slice(styles, end) == SubSeq(styles, 1, IF Len(styles) < end THEN Len(styles) ELSE end)

\* `return styles.slice(0, 6)`
styleLimit == 6

\* the value suggestStyleIdeas resolves to
suggestStyleIdeas(response) ==
    IF response.kind \in {"rejected", "noText", "notJson"} THEN fallbackStyles
    ELSE IF response.kind = "object" \/ Len(response.elements) = 0 THEN fallbackStyles
    ELSE Slice(response.elements, styleLimit)

SuggestStyleIdeas ==
    /\ ideasResponse /= NoIdeasCall
    /\ ideasResult = Pending
    /\ ideasResult' = [status |-> "resolved", styles |-> suggestStyleIdeas(ideasResponse)]
    /\ UNCHANGED <<ideasResponse, callVars, renderVars, sceneVars, decadeVars, pureVars,
                   wizardVars, slideVars, rendererVars>>

----------------------------------------------------------------------------
(* Specifications *)

\* no call of the service module has been made
InitService ==
    /\ rt = RtIdle
    /\ rtLog = <<>>
    /\ arch = NotStarted
    /\ archSeen = {}
    /\ render = RenderIdle
    /\ cand = [i \in 1..MaxK |-> NotStarted]
    /\ promptCalls = 0
    /\ dec = DecIdle
    /\ decLog = <<>>
    /\ clock = 0
    /\ prompts = <<>>

\* the useState initial values of App, Step1Upload and Step2Rendering
InitApp ==
    /\ currentStep = "language"
    /\ uploadedImage = NoImage
    /\ renderedImage = NoImage
    /\ reads = {}
    /\ uploadNo = 0
    /\ step2 = FreshStep2
    /\ renderings = {}
    /\ renderNo = 0
    /\ mountedSince = 0

\* Step5Presentation when it is mounted: the text fetch is under way
InitSlides ==
    /\ presentationText = NoText
    /\ slideImages = <<>>
    /\ isLoadingText = TRUE
    /\ isGeneratingSlides = FALSE
    /\ slideError = FALSE
    /\ selectedTheme = SlideThemes[1]
    /\ editingSlide = 0
    /\ regens = {}
    /\ regenNo = 0

\* the slide renderer before it is called
InitRenderer ==
    /\ job = NoJob
    /\ canvas = Blank

\* suggestStyleIdeas before it is called
InitIdeas ==
    /\ ideasResponse = NoIdeasCall
    /\ ideasResult = Pending

\* the components outside Step3SceneGeneration
InitRest == InitApp /\ InitSlides /\ InitRenderer /\ InitIdeas

\* the useState initial values of Step3SceneGeneration
InitCalls ==
    /\ InitService
    /\ scenePoints = 0
    /\ style = ""
    /\ scenes = <<>>
    /\ isGenerating = FALSE
    /\ batchNo = 0
    /\ editNo = 0
    /\ inflight = {}
    /\ callsStarted = 0
    /\ expected = [v \in 1..MaxPoints |-> InitialScene(v, "")]
    /\ overlapped = FALSE
    /\ selectedSceneIndex = 0
    /\ InitRest

Init ==
    /\ InitCalls
    /\ val = Received(NoResponse)

NextCalls ==
    \/ CallGeminiWithRetry
    \/ \E r \in Responses : RetryResolved(r)
    \/ \E m \in ApiErrors : RetryRejected(m)
    \/ RetryTimer
    \/ GenerateArchitecturalImage
    \/ \E o \in Outcomes : ArchApiSettles(o)
    \/ ArchTimer

SpecCalls == Init /\ [][NextCalls]_vars

\* the same with every awaited generateContent call settling and every
\* setTimeout firing
SpecCallsLive ==
    /\ SpecCalls
    /\ WF_vars((\E r \in Responses : RetryResolved(r)) \/ (\E m \in ApiErrors : RetryRejected(m)))
    /\ WF_vars(RetryTimer)
    /\ WF_vars(\E o \in Outcomes : ArchApiSettles(o))
    /\ WF_vars(ArchTimer)

NextRender ==
    \/ \E n \in 1..MaxK : GenerateAIRendering(n)
    \/ RenderConvertFails
    \/ RenderLaunch
    \/ \E i \in 1..MaxK : \E o \in Outcomes : CandApiSettles(i, o)
    \/ \E i \in 1..MaxK : CandTimer(i)

SpecRender == Init /\ [][NextRender]_vars

NextScenes ==
    \/ AddScenePoint
    \/ ClearPoints
    \/ \E st \in Styles : OnStyleChange(st)
    \/ GenerateScenes
    \/ RetryGenerateScenes
    \/ \E op \in inflight : \E ok \in BOOLEAN : GenSettles(op, ok)
    \/ \E v \in 1..MaxPoints : \E in \in EditInputs : HandleEdit(v, in)
    \/ \E op \in inflight : \E ok \in BOOLEAN : EditSettles(op, ok)
    \/ \E v \in 1..MaxPoints : HandleRestore(v)

SpecScenes == Init /\ [][NextScenes]_vars

\* the scenes once the first batch of n viewpoints has settled, oks[i] telling
\* whether the generation of viewpoint i succeeded
AfterFirstBatch(n, oks) ==
    [i \in 1..n |->
        IF oks[i]
        THEN [InitialScene(i, "Modern") EXCEPT !.url = GenUrl(1, i),
                                               !.originalUrl = GenUrl(1, i),
                                               !.isLoading = FALSE]
        ELSE [InitialScene(i, "Modern") EXCEPT !.error = GenError(1, i),
                                               !.isLoading = FALSE]]

\* Step3SceneGeneration after generateScenes has completed once
InitCamera ==
    /\ InitService
    /\ val = Received(NoResponse)
    /\ style = "Modern"
    /\ scenePoints \in 1..MaxPoints
    /\ \E oks \in [1..scenePoints -> BOOLEAN] :
          /\ scenes = AfterFirstBatch(scenePoints, oks)
          /\ expected = [v \in 1..MaxPoints |->
                            IF v <= scenePoints THEN AfterFirstBatch(scenePoints, oks)[v]
                            ELSE InitialScene(v, "Modern")]
    /\ isGenerating = FALSE
    /\ batchNo = 1
    /\ editNo = 0
    /\ callsStarted = scenePoints
    /\ inflight = {}
    /\ overlapped = FALSE
    /\ selectedSceneIndex = 0
    /\ InitRest

\* the InteractiveSceneModal over the generated scenes
NextCamera ==
    \/ \E index \in 1..MaxPoints : SelectScene(index)
    \/ CloseModal
    \/ /\ ModalShown
       /\ \E cameraChanges \in ModalButtons(scenes[selectedSceneIndex].camera) :
             HandleCameraUpdate(cameraChanges)
    \/ \E op \in inflight : \E ok \in BOOLEAN : CameraSettles(op, ok)

SpecCamera == InitCamera /\ [][NextCamera]_vars

\* every operation that changes the status of a scene, from the state in which
\* generateScenes has completed once.  The modal covers the page
\* (part_000:40, "fixed inset-0 ... z-50") and belongs to Step3SceneGeneration,
\* which is unmounted on the way to Step4SceneEditing: the scene cards and the
\* controls of step 4 are used while it is closed.
NextStatus ==
    \/ NextCamera
    \/ selectedSceneIndex = 0 /\ RetryGenerateScenes
    \/ \E op \in inflight : \E ok \in BOOLEAN : GenSettles(op, ok)
    \/ /\ selectedSceneIndex = 0
       /\ \E v \in 1..MaxPoints : \E in \in EditInputs : HandleEdit(v, in)
    \/ \E op \in inflight : \E ok \in BOOLEAN : EditSettles(op, ok)
    \/ selectedSceneIndex = 0 /\ \E v \in 1..MaxPoints : HandleRestore(v)

\* the state after generateScenes has completed once for one viewpoint and
\* its scene was generated; the budget callsStarted counts the calls started
\* from here on
InitStatus ==
    /\ InitService
    /\ val = Received(NoResponse)
    /\ style = "Modern"
    /\ scenePoints = 1
    /\ scenes = AfterFirstBatch(1, [i \in 1..1 |-> TRUE])
    /\ expected = [v \in 1..MaxPoints |->
                      IF v <= 1 THEN AfterFirstBatch(1, [i \in 1..1 |-> TRUE])[v]
                      ELSE InitialScene(v, "Modern")]
    /\ isGenerating = FALSE
    /\ batchNo = 1
    /\ editNo = 0
    /\ callsStarted = 0
    /\ inflight = {}
    /\ overlapped = FALSE
    /\ selectedSceneIndex = 0
    /\ InitRest

SpecStatus == InitStatus /\ [][NextStatus]_vars

\* every awaited call of the scene operations settles: the promise of
\* generateInteriorScene resolves or rejects
SpecStatusLive ==
    /\ SpecStatus
    /\ WF_vars(\E op \in inflight : \E ok \in BOOLEAN : GenSettles(op, ok))
    /\ WF_vars(\E op \in inflight : \E ok \in BOOLEAN : EditSettles(op, ok))
    /\ WF_vars(\E op \in inflight : \E ok \in BOOLEAN : CameraSettles(op, ok))

\* the scene of a viewpoint is being worked on
SceneLoading(v) == v \in DOMAIN scenes /\ scenes[v].isLoading

\* the scene of a viewpoint is at rest with an image or an error message
SceneAtRest(v) ==
    /\ v \in DOMAIN scenes
    /\ ~scenes[v].isLoading
    /\ (scenes[v].url /= NoMark \/ scenes[v].error /= NoMark)

\* C32: every scene that is loading (initial generation, camera update or
\* edit) eventually stops loading and then holds an image or an error message
C32_LoadingEnds ==
    \A v \in 1..MaxPoints : SceneLoading(v) ~> SceneAtRest(v)

\* the tilt buttons of the modal
TiltButtons(camera) == {c \in ModalButtons(camera) : c.field = "tilt"}

\* an edit to night lighting
NightInput == [mode |-> "night", temperature |-> 3000]

\* camera updates and edits that overlap with generateScenes
NextFailure ==
    \/ \E index \in 1..MaxPoints : SelectScene(index)
    \/ CloseModal
    \/ /\ ModalShown
       /\ \E cameraChanges \in TiltButtons(scenes[selectedSceneIndex].camera) :
             HandleCameraUpdate(cameraChanges)
    \/ \E op \in inflight : \E ok \in BOOLEAN : CameraSettles(op, ok)
    \/ selectedSceneIndex = 0 /\ \E v \in 1..MaxPoints : HandleEdit(v, NightInput)
    \/ \E op \in inflight : \E ok \in BOOLEAN : EditSettles(op, ok)
    \/ selectedSceneIndex = 0 /\ RetryGenerateScenes
    \/ \E op \in inflight : \E ok \in BOOLEAN : GenSettles(op, ok)

SpecFailure == InitCamera /\ [][NextFailure]_vars

\* the data of a scene, as opposed to its status
SceneData(scene) ==
    [url |-> scene.url, originalUrl |-> scene.originalUrl, camera |-> scene.camera,
     mode |-> scene.mode, temperature |-> scene.temperature]

\* the step in which the catch block of a camera update or an edit runs
FailureOf(op) ==
    \/ op.kind = "camera" /\ CameraSettles(op, FALSE)
    \/ op.kind = "edit" /\ EditSettles(op, FALSE)

NextSlides ==
    \/ \E ok \in BOOLEAN : TextFetchSettles(ok)
    \/ \E theme \in {SlideThemes[i] : i \in DOMAIN SlideThemes} : SetSelectedTheme(theme)
    \/ \E slideIndex \in 1..SlideCount(MaxPoints) : HandleEditSlide(slideIndex)
    \/ CloseEditSlideModal
    \/ HandleSave
    \/ \E c \in regens : \E ok \in BOOLEAN : \E drawn \in DrawnTexts(c) :
          RegenSettles(c, ok, drawn)

SpecSlides == InitCamera /\ [][NextSlides]_vars

\* the slide renderer called once with any of the arguments
InitJob ==
    /\ InitService
    /\ val = Received(NoResponse)
    /\ scenePoints = 0
    /\ style = ""
    /\ scenes = <<>>
    /\ isGenerating = FALSE
    /\ batchNo = 0
    /\ editNo = 0
    /\ inflight = {}
    /\ callsStarted = 0
    /\ expected = [v \in 1..MaxPoints |-> InitialScene(v, "")]
    /\ overlapped = FALSE
    /\ selectedSceneIndex = 0
    /\ InitApp
    /\ InitSlides
    /\ InitIdeas
    /\ job \in Jobs
    /\ canvas = Blank

NextRenderer ==
    \/ GetLinesDynamic
    \/ GetLines
    \/ DrawTextWithDynamicSize
    \/ DrawTextWithAutoSize
    \/ DrawFullBleedImage
    \/ DrawConclusionSlide

SpecRenderer == InitJob /\ [][NextRenderer]_vars

\* a function of Step5Presentation or presentationUtils called once with
\* any of the arguments jobs
InitWith(jobs) ==
    /\ InitService
    /\ val = Received(NoResponse)
    /\ scenePoints = 0
    /\ style = ""
    /\ scenes = <<>>
    /\ isGenerating = FALSE
    /\ batchNo = 0
    /\ editNo = 0
    /\ inflight = {}
    /\ callsStarted = 0
    /\ expected = [v \in 1..MaxPoints |-> InitialScene(v, "")]
    /\ overlapped = FALSE
    /\ selectedSceneIndex = 0
    /\ InitApp
    /\ InitSlides
    /\ InitIdeas
    /\ job \in jobs
    /\ canvas = Blank

\* one of the two deck generators called once with any text and scenes
InitDeck == InitWith(DeckJobs)

NextDeck ==
    \/ CreatePresentationSlides
    \/ GenerateSlides

SpecDeck == InitDeck /\ [][NextDeck]_vars

\* handleSave called once on any text, slide and modal content
InitSave == InitWith(SaveJobs)

NextSave == SaveSlide

SpecSave == InitSave /\ [][NextSave]_vars

\* suggestStyleIdeas called once, with any behaviour of generateContent
InitIdeasCall ==
    /\ InitService
    /\ val = Received(NoResponse)
    /\ scenePoints = 0
    /\ style = ""
    /\ scenes = <<>>
    /\ isGenerating = FALSE
    /\ batchNo = 0
    /\ editNo = 0
    /\ inflight = {}
    /\ callsStarted = 0
    /\ expected = [v \in 1..MaxPoints |-> InitialScene(v, "")]
    /\ overlapped = FALSE
    /\ selectedSceneIndex = 0
    /\ InitApp
    /\ InitSlides
    /\ InitRenderer
    /\ ideasResponse \in IdeasResponses
    /\ ideasResult = Pending

NextIdeas == SuggestStyleIdeas

SpecIdeas == InitIdeasCall /\ [][NextIdeas]_vars

\* the wizard: App with the components of steps 1 to 3
NextWizard ==
    \/ HandleLanguageSelect
    \/ ChangeLanguage
    \/ GoToNextStep
    \/ GoToPrevStep
    \/ ResetApp
    \/ HandleFileUpload
    \/ \E k \in reads : \E ok \in BOOLEAN : ReaderLoadEnd(k, ok)
    \/ \E n \in ImageCounts : HandleInitialGeneration(n)
    \/ AcceptRendering
    \/ \E n \in ImageCounts : RejectRendering(n)
    \/ \E n \in ImageCounts : ApplyAutoMaterial(n)
    \/ \E c \in renderings : \E ok \in BOOLEAN : RenderingSettles(c, ok)
    \/ \E j \in ImageCounts : PreviewSelection(j)
    \/ CancelSelection
    \/ ConfirmSelection
    \/ RestorePrevious
    \/ currentStep = "step3" /\ AddScenePoint
    \/ currentStep = "step3" /\ ClearPoints
    \/ currentStep = "step3" /\ \E st \in Styles : OnStyleChange(st)
    \/ currentStep = "step3" /\ GenerateScenes
    \/ currentStep = "step3" /\ RetryGenerateScenes
    \/ \E op \in inflight : \E ok \in BOOLEAN :
          op.batch > mountedSince /\ GenSettles(op, ok)
    \/ \E op \in inflight : \E ok \in BOOLEAN : GenSettlesUnmounted(op, ok)

SpecWizard == Init /\ [][NextWizard]_vars

\* steps 1 and 2 of the wizard: upload, rendering, changes of the rendering
\* and their undoing
NextUndo ==
    \/ HandleLanguageSelect
    \/ GoToNextStep
    \/ GoToPrevStep
    \/ HandleFileUpload
    \/ \E k \in reads : \E ok \in BOOLEAN : ReaderLoadEnd(k, ok)
    \/ \E n \in ImageCounts : HandleInitialGeneration(n)
    \/ AcceptRendering
    \/ \E n \in ImageCounts : RejectRendering(n)
    \/ \E n \in ImageCounts : ApplyAutoMaterial(n)
    \/ \E c \in renderings : \E ok \in BOOLEAN : RenderingSettles(c, ok)
    \/ \E j \in ImageCounts : PreviewSelection(j)
    \/ CancelSelection
    \/ ConfirmSelection
    \/ RestorePrevious

SpecUndo == Init /\ [][NextUndo]_vars


\* the operations that create, replace or empty the scene collection
NextLifecycle ==
    \/ HandleLanguageSelect
    \/ GoToNextStep
    \/ GoToPrevStep
    \/ ResetApp
    \/ HandleFileUpload
    \/ \E k \in reads : \E ok \in BOOLEAN : ReaderLoadEnd(k, ok)
    \/ \E n \in ImageCounts : HandleInitialGeneration(n)
    \/ \E c \in renderings : \E ok \in BOOLEAN : RenderingSettles(c, ok)
    \/ currentStep = "step3" /\ AddScenePoint
    \/ currentStep = "step3" /\ ClearPoints
    \/ currentStep = "step3" /\ \E st \in Styles : OnStyleChange(st)
    \/ currentStep = "step3" /\ GenerateScenes
    \/ \E op \in inflight : \E ok \in BOOLEAN :
          op.batch > mountedSince /\ GenSettles(op, ok)
    \/ \E op \in inflight : \E ok \in BOOLEAN : GenSettlesUnmounted(op, ok)

SpecLifecycle == Init /\ [][NextLifecycle]_vars

NextDecade ==
    \/ \E valid \in BOOLEAN : \E prompt \in Prompts : GenerateDecadeImage(valid, prompt)
    \/ \E o \in Outcomes : DecApiSettles(o)
    \/ DecTimer

SpecDecade == Init /\ [][NextDecade]_vars

InitValidate ==
    /\ InitCalls
    /\ val \in {Received(resp) : resp \in RawResponses}

NextValidate ==
    \/ ProcessGeminiResponse
    \/ ValidateArchitectural

SpecValidate == InitValidate /\ [][NextValidate]_vars

NextPrompt ==
    \/ Tick
    \/ \E basePrompt \in BasePrompts : \E r \in 0..(Len(variations) - 1) :
          GeneratePromptVariations(basePrompt, r)

SpecPrompt == Init /\ [][NextPrompt]_vars

----------------------------------------------------------------------------
(* Properties of generateAIRendering (SpecRender) *)

Settled(c) == c.pc \in {"resolved", "rejected"}
RenderSettled == render.status \in {"resolved", "rejected"}
CandidatesLaunched == \E i \in 1..MaxK : cand[i].pc /= "none"
Requested == 1..render.n

\* the urls of the resolved candidates among 1..k, in candidate order
RECURSIVE SucceededUrls(_)
SucceededUrls(k) ==
    IF k = 0 THEN <<>>
    ELSE IF cand[k].pc = "resolved" THEN Append(SucceededUrls(k - 1), cand[k].url)
    ELSE SucceededUrls(k - 1)

\* C1: with K > 1 candidates of which some but not all failed terminally, the
\* call resolves with exactly the images of the candidates that succeeded.
C1_PartialFailureStillSucceeds ==
    ( /\ render.n > 1
      /\ \A i \in Requested : Settled(cand[i])
      /\ \E i \in Requested : cand[i].pc = "rejected"
      /\ \E i \in Requested : cand[i].pc = "resolved" )
    => /\ render.status = "resolved"
       /\ render.value = SucceededUrls(render.n)

\* C2: the call completes (resolves or rejects) only after all K candidates have
\* settled.
C2_CompletesAfterAllSettled ==
    (RenderSettled /\ CandidatesLaunched) => \A i \in Requested : Settled(cand[i])

\* C3: when every one of the K candidates has failed, the call has rejected with
\* one aggregate error whose message names the number of failed candidates.
C3_AggregateErrorNamesCount ==
    (render.n > 1 /\ \A i \in Requested : cand[i].pc = "rejected")
    => /\ render.status = "rejected"
       /\ Includes(render.error, ToString(render.n))

\* C4: the first API call of every candidate is issued before the response of
\* any candidate is processed, and every candidate's prompt comes from an
\* invocation of generatePromptVariations of its own.
C4_AllStartedInOneBatch ==
    /\ (\E i \in 1..MaxK : cand[i].attempts > 0 \/ Settled(cand[i]))
         => \A j \in Requested : cand[j].calls >= 1
    /\ CandidatesLaunched =>
         /\ promptCalls = render.n
         /\ \A i, j \in Requested : i /= j => cand[i].prompt /= cand[j].prompt
         /\ \A i \in Requested : cand[i].prompt \in 1..promptCalls

C4_Witness ==
    /\ render.n = MaxK
    /\ render.n > 1
    /\ cand[1].pc = "resolved"
    /\ \A j \in Requested : j /= 1 => cand[j].pc = "inflight" /\ cand[j].calls = 1

----------------------------------------------------------------------------
(* Properties of the scene collection (SpecScenes) *)

\* the generation calls of an older batch that settle in this step
StaleSettling == {op \in inflight \ inflight' : op.kind = "gen" /\ op.batch < batchNo}

\* C5: a result of a superseded batch that settles after a newer batch has been
\* started changes nothing in the scene collection (url, originalUrl, error and
\* isLoading of the newer batch's scenes stay as they are).
C5_StaleResultIgnored ==
    [][StaleSettling /= {} => scenes' = scenes]_vars

AllSettledCleanly == ~overlapped /\ inflight = {}

\* C6: once all generations of one batch and all edits have settled, in whatever
\* order, every scene is the result of its own operations alone: it is not
\* loading, it holds its own image or its own error, and nothing in it comes
\* from another scene's call.
C6_NoLostUpdates ==
    AllSettledCleanly =>
        \A i \in DOMAIN scenes :
            /\ scenes[i] = expected[i]
            /\ ~scenes[i].isLoading
            /\ scenes[i].url /= NoMark \/ scenes[i].error /= NoMark
            /\ \A m \in {scenes[i].url, scenes[i].originalUrl, scenes[i].error} :
                   m /= NoMark => m.view = i /\ m.batch = batchNo

C6_Witness ==
    /\ AllSettledCleanly
    /\ Len(scenes) = 2
    /\ scenes[1].originalUrl = GenUrl(batchNo, 1)
    /\ scenes[1].url.edit > 0
    /\ scenes[2].url = NoMark
    /\ scenes[2].error = GenError(batchNo, 2)

----------------------------------------------------------------------------
(* Properties of the retry loops (SpecCalls) *)

IsTransient(o) == o.throws /\ isInternalError(o.msg)
AllTransient(log) == \A k \in DOMAIN log : IsTransient(log[k])

\* C7: a response whose finishReason is SAFETY ends generateArchitecturalImage:
\* the call has failed and the request is not issued again.
C7_SafetyBlockIsTerminal ==
    "safety" \in archSeen => arch.pc = "rejected"

\* C8: neither loop makes more API calls than its maximum, and against an
\* upstream that only ever fails with a transient error callGeminiWithRetry
\* throws exactly when the 3rd call has failed and generateArchitecturalImage
\* exactly when the 7th has.
C8_BoundedAttempts ==
    /\ rt.calls <= maxRetries
    /\ arch.calls <= maxAttempts
    /\ (rtLog /= <<>> /\ AllTransient(rtLog)) =>
         /\ rt.pc /= "returned"
         /\ rt.pc = "thrown" <=> Len(rtLog) = maxRetries
         /\ rt.pc = "thrown" => rt.calls = maxRetries /\ rt.error = rtLog[maxRetries].msg
    /\ archSeen = {"transient"} =>
         /\ arch.pc /= "resolved"
         /\ arch.pc = "rejected" <=> arch.attempts = maxAttempts
         /\ arch.pc = "rejected" => arch.calls = maxAttempts

C8_Witness ==
    /\ rt.pc = "thrown" /\ AllTransient(rtLog) /\ rt.calls = 3
    /\ arch.pc = "rejected" /\ archSeen = {"transient"} /\ arch.calls = 7

\* C9: two transient failures followed by a success on the third call: the
\* third call is made, its response is what the function returns, and exactly
\* 3 calls were made.
C9_SucceedsOnThirdCall ==
    /\ (Len(rtLog) = 2 /\ AllTransient(rtLog)) =>
         /\ rt.pc \in {"sleeping", "calling"}
         /\ rt.pc = "calling" => rt.calls = 3
    /\ (Len(rtLog) = 3 /\ AllTransient(SubSeq(rtLog, 1, 2)) /\ ~rtLog[3].throws) =>
         /\ rt.pc = "returned"
         /\ rt.response = rtLog[3].resp
         /\ rt.calls = 3

C9_Witness ==
    /\ Len(rtLog) = 3 /\ AllTransient(SubSeq(rtLog, 1, 2)) /\ ~rtLog[3].throws
    /\ rt.pc = "returned"

\* C10: an error whose message does not match the transient signature is
\* re-thrown at once: after the call that failed with it the function has
\* thrown that error without a backoff delay for it; if it was the first call,
\* exactly 1 call was made and no delay was taken at all.
C10_NonTransientRethrown ==
    \A k \in DOMAIN rtLog :
        (rtLog[k].throws /\ ~isInternalError(rtLog[k].msg)) =>
            /\ k = Len(rtLog)
            /\ rt.pc = "thrown"
            /\ rt.error = rtLog[k].msg
            /\ rt.calls = k
            /\ Len(rt.delays) = k - 1

C10_Witness ==
    /\ Len(rtLog) = 1 /\ rtLog[1].throws /\ ~isInternalError(rtLog[1].msg)
    /\ rt.pc = "thrown" /\ rt.calls = 1 /\ rt.delays = <<>>

----------------------------------------------------------------------------
(* Properties of generateDecadeImage (SpecDecade) *)

OriginalLog == SelectSeq(decLog, LAMBDA e : e.phase = "original")
FallbackLog == SelectSeq(decLog, LAMBDA e : e.phase = "fallback")
Last(log) == log[Len(log)]

\* the upstream answered without an image: no part of the response carries inline data
AnsweredWithoutImage(o) == ~o.throws /\ FindInline(o.resp.parts, 1) = 0
AnsweredWithImage(o) == ~o.throws /\ FindInline(o.resp.parts, 1) > 0

\* the attempt with the original prompt ended with a response without an image
OriginalGotNoImage == OriginalLog /= <<>> /\ AnsweredWithoutImage(Last(OriginalLog).out)

\* an API call with the fallback prompt has been issued
FallbackIssued == dec.pc = "fallback" \/ FallbackLog /= <<>>

\* C11: the prompt holds a decade and the original prompt got a response
\* without an image: the fallback prompt is then sent, and when the upstream
\* answers it with an image the call returns that image; the fallback prompt is
\* sent in one retry sequence only, after the calls with the original prompt.
C11_FallbackUsedOnce ==
    /\ (OriginalGotNoImage /\ extractDecade(dec.prompt) /= <<>>) =>
         /\ FallbackIssued
         /\ dec.sent = getFallbackPrompt(extractDecade(dec.prompt))
         /\ FallbackLog = <<>> => dec.pc = "fallback" /\ dec.call.calls = 1
    /\ \A i, j \in DOMAIN decLog :
         (i < j /\ decLog[i].phase = "fallback") => decLog[j].phase = "fallback"
    /\ \A i \in DOMAIN FallbackLog :
         FallbackLog[i].sent = getFallbackPrompt(extractDecade(dec.prompt))
    /\ Len(FallbackLog) <= maxRetries
    /\ FallbackLog /= <<>> =>
         dec.call.calls = Len(FallbackLog) + (IF dec.call.pc = "calling" THEN 1 ELSE 0)
    /\ (FallbackLog /= <<>> /\ AnsweredWithImage(Last(FallbackLog).out)) =>
         LET parts == Last(FallbackLog).out.resp.parts
             k == FindInline(parts, 1)
         IN  /\ dec.pc = "returned"
             /\ dec.url = <<"data:", parts[k].mimeType, ";base64,", parts[k].data>>

C11_Witness ==
    /\ dec.pc = "returned"
    /\ OriginalGotNoImage
    /\ Len(FallbackLog) = 2
    /\ AnsweredWithImage(Last(FallbackLog).out)

\* C12: an API call with the fallback prompt is issued exactly when the attempt
\* with the original prompt failed because the response held no image and a
\* decade can be extracted from the prompt; after any other failure of the
\* original attempt the call has failed without a fallback call.
C12_FallbackIffNoImageAndDecade ==
    /\ FallbackIssued <=> (OriginalGotNoImage /\ extractDecade(dec.prompt) /= <<>>)
    /\ (dec.pc \notin {"idle", "original", "returned"} /\ ~FallbackIssued) =>
         /\ dec.pc = "thrown"
         /\ \A i \in DOMAIN decLog : decLog[i].sent = dec.prompt

C12_Witness ==
    /\ dec.pc = "thrown"
    /\ Len(OriginalLog) = maxRetries
    /\ Last(OriginalLog).out.throws
    /\ extractDecade(dec.prompt) /= <<>>
    /\ ~FallbackIssued

\* the text by which processGeminiResponse names a response without an image
TextNamed(resp) ==
    IF ResponseText(resp.parts, 1) = <<>> THEN NoTextPlaceholder
    ELSE ResponseText(resp.parts, 1)

\* the message of the failure that ended the attempt recorded in log
FailureNamed(log) ==
    IF Last(log).out.throws THEN Last(log).out.msg
    ELSE TextNamed(Last(log).out.resp)

BothPromptsFailed ==
    /\ dec.pc = "thrown"
    /\ FallbackLog /= <<>>

\* C13: when the original prompt and the fallback prompt have both failed, the
\* error thrown names the failure of the original attempt and the failure of
\* the fallback attempt.
C13_FinalErrorNamesBothFailures ==
    BothPromptsFailed =>
        /\ \A k \in DOMAIN FailureNamed(FallbackLog) :
               Includes(dec.error, FailureNamed(FallbackLog)[k])
        /\ \A k \in DOMAIN FailureNamed(OriginalLog) :
               Includes(dec.error, FailureNamed(OriginalLog)[k])

----------------------------------------------------------------------------
(* Properties of the response validators (SpecValidate) *)

ProcRan == val.proc /= NotRun
ArchRan == val.arch /= NotRun

\* part k is the first part of the response that carries inline data
IsFirstImagePart(k) ==
    /\ k \in DOMAIN val.resp.parts
    /\ val.resp.parts[k].inlineData
    /\ \A j \in 1..(k - 1) : ~val.resp.parts[j].inlineData

\* the payload and the mime type of a data URL
PayloadOf(url) == url[4]
MimeOf(url) == url[2]

\* the validator result v is an image whose payload is that of part k
ReturnsImageOf(v, k) == v.ok /\ PayloadOf(v.url) = val.resp.parts[k].data

\* C15 (as stated): whenever a part of the response carries inline image data,
\* each validator returns an image built from the first such part, whatever
\* text parts and other fields the response has.
C15_ImagePartAlwaysWins ==
    \A k \in DOMAIN val.resp.parts :
        (IsFirstImagePart(k) /\ val.resp.parts[k].data /= "") =>
            /\ ProcRan => ReturnsImageOf(val.proc, k)
            /\ ArchRan => ReturnsImageOf(val.arch, k)

\* C15 (amended): processGeminiResponse returns an image built from the first
\* part with inline data whatever else the response holds; the validation of
\* generateArchitecturalImage does so when finishReason is not SAFETY and that
\* part's data is not empty, and throws otherwise.
C15_ImagePartWinsUnlessBlocked ==
    \A k \in DOMAIN val.resp.parts :
        IsFirstImagePart(k) =>
            /\ ProcRan => ReturnsImageOf(val.proc, k)
            /\ ArchRan =>
                 IF val.resp.finishReason /= "SAFETY" /\ val.resp.parts[k].data /= ""
                 THEN ReturnsImageOf(val.arch, k)
                 ELSE ~val.arch.ok

C15_Witness ==
    /\ val.resp = [finishReason |-> "MAX_TOKENS",
                   parts |-> <<TextPart("Here you go"), ImagePart("image/jpeg", "BBBB")>>]
    /\ ProcRan /\ val.proc.ok
    /\ ArchRan /\ val.arch.ok

\* C16: a response that carries the safety-block signal is not classified as a
\* refusal without image: neither validator answers it with its no-image error
\* (the one that makes generateDecadeImage try the fallback prompt).
C16_SafetyBlockClassifiedApart ==
    val.resp.finishReason = "SAFETY" =>
        /\ ProcRan => ~isNoImageError(val.proc.msg)
        /\ ArchRan => val.arch.msg /= NoImageMessage

\* C17: the data URL of a returned image carries the mime type of the image
\* part it was built from, together with that part's payload.
C17_MimeTypeOfThePart ==
    \A k \in DOMAIN val.resp.parts :
        IsFirstImagePart(k) =>
            /\ (ProcRan /\ val.proc.ok) =>
                 /\ MimeOf(val.proc.url) = val.resp.parts[k].mimeType
                 /\ PayloadOf(val.proc.url) = val.resp.parts[k].data
            /\ (ArchRan /\ val.arch.ok) =>
                 /\ MimeOf(val.arch.url) = val.resp.parts[k].mimeType
                 /\ PayloadOf(val.arch.url) = val.resp.parts[k].data

----------------------------------------------------------------------------
(* Properties of generatePromptVariations (SpecPrompt) *)

\* C18: two successive invocations with the same base prompt return different
\* strings, whatever variation is drawn and whatever the clock reads.
C18_SuccessiveOutputsDiffer ==
    \A i \in DOMAIN prompts :
        (i > 1 /\ prompts[i].basePrompt = prompts[i - 1].basePrompt)
            => prompts[i].out /= prompts[i - 1].out


\* C19: every scene's camera has its tilt within [-45, 45] and its zoom
\* within [0.5, 2.0], whatever buttons of the modal were used and whether the
\* regenerations they started succeeded or failed
C19_CameraWithinLimits ==
    \A i \in DOMAIN scenes :
        /\ scenes[i].camera.tilt >= -45
        /\ scenes[i].camera.tilt <= 45
        /\ ~FracLess(scenes[i].camera.zoom, Frac(1, 2))
        /\ ~FracLess(Frac(2, 1), scenes[i].camera.zoom)

\* a scene whose zoom was cut down to the limit: 2 is no power of 5/4, so only
\* the clamp of a fourth zoom-in stores it
C19_Witness ==
    \E i \in DOMAIN scenes :
        /\ scenes[i].camera.zoom = Frac(2, 1)
        /\ scenes[i].url = CameraUrl(batchNo, i, editNo)
        /\ ~scenes[i].isLoading

\* the scenes of the batch on screen keep the originalUrl they have
OriginalUrlKept ==
    \A i \in DOMAIN scenes :
        (i \in DOMAIN scenes' /\ scenes[i].originalUrl /= NoMark)
            => scenes'[i].originalUrl = scenes[i].originalUrl

\* C20: once a scene has its originalUrl (the image of its first successful
\* generation) no later step changes it while the scene exists, and
\* handleRestore sets url to exactly that originalUrl
C20_OriginalUrlSetOnce ==
    [][/\ batchNo' = batchNo => OriginalUrlKept
       /\ \A v \in 1..MaxPoints :
             HandleRestore(v) => scenes'[v].url = scenes[v].originalUrl]_vars

\* the same, for steps taken while no earlier batch had calls pending when
\* the batch on screen was started
OriginalUrlKeptWithoutOverlap ==
    [][(batchNo' = batchNo /\ ~overlapped) => OriginalUrlKept]_vars

\* a step after which the collection holds fewer scenes than before
SceneRemoved == Len(scenes') < Len(scenes)

\* a step of one of App's handlers that empty generatedScenes
AppEmptiesScenes ==
    \/ ResetApp
    \/ \E k \in reads : \E ok \in BOOLEAN : ReaderLoadEnd(k, ok)
    \/ \E c \in renderings : \E ok \in BOOLEAN : RenderingSettles(c, ok)
    \/ ConfirmSelection
    \/ RestorePrevious

C29_WizardInvariant ==
    /\ currentStep \in {"step2", "step3", "step4"} => uploadedImage /= NoImage
    /\ currentStep \in {"step3", "step4"} => renderedImage /= NoImage
    /\ currentStep = "step4" =>
          /\ scenes /= <<>>
          /\ \A i \in DOMAIN scenes : ~scenes[i].isLoading
----------------------------------------------------------------------------
(* Step5Presentation: slide regeneration *)

\* step: the awaited generateSlides of call c has resolved and its images
\* replaced the displayed ones
SlidesReplacedBy(c) ==
    /\ c \in regens
    /\ regens' = regens \ {c}
    /\ ~slideError'
    /\ slideImages' /= slideImages

\* every slide of the set is drawn with the theme of call c from the text of
\* call c (or from a later version of that slide's text)
CompleteSetOf(images, c) ==
    /\ DOMAIN images = DOMAIN c.text
    /\ \A i \in DOMAIN images :
          /\ images[i].theme = c.theme
          /\ images[i].text >= c.text[i]

\* C22: saving an edit of one slide's text replaces presentationText by the
\* updated text and starts, in the same step, a generateSlides call on the
\* updated text and the current theme; and whenever a generateSlides call
\* replaces the displayed slides, it replaces every slide of the set with one
\* drawn from that call's text and theme.
C22_SaveRegeneratesAll ==
    [][ /\ HandleSave =>
            /\ presentationText' /= presentationText
            /\ presentationText'[editingSlide] > presentationText[editingSlide]
            /\ \E c \in regens' \ regens :
                  /\ c.text = presentationText'
                  /\ c.theme = selectedTheme'
                  /\ DOMAIN c.text = 1..SlideCount(Len(completedScenes))
        /\ \A c \in regens : SlidesReplacedBy(c) => CompleteSetOf(slideImages', c)
      ]_vars

\* C22 witness: an edit was saved and the regeneration it started has
\* replaced the slides, all of them drawn from the updated text
C22_Witness ==
    /\ regens = {}
    /\ presentationText /= NoText
    /\ \E i \in DOMAIN presentationText : presentationText[i] > 0
    /\ DOMAIN slideImages = DOMAIN presentationText
    /\ \A i \in DOMAIN slideImages :
          /\ slideImages[i].text = presentationText[i]
          /\ slideImages[i].theme = selectedTheme

\* C30: once every regeneration has settled (none of them with an error), the
\* displayed slideImages are the ones drawn from the current presentationText
\* and the current selectedTheme.
C30_SlidesAreCurrent ==
    (/\ ~isLoadingText
     /\ presentationText /= NoText
     /\ regens = {}
     /\ ~slideError)
    => /\ DOMAIN slideImages = DOMAIN presentationText
       /\ \A i \in DOMAIN slideImages :
             /\ slideImages[i].text = presentationText[i]
             /\ slideImages[i].theme = selectedTheme

----------------------------------------------------------------------------
(* Slide renderer: text fitting, wrapping and cropping (SpecRenderer) *)

TextDrawn == canvas.op = "text"

\* the wrapped lines and the line height of the job's text at a font size
LinesAt(size) ==
    IF job.kind = "dynamic" THEN getLinesDynamic(job.text, size, job.maxWidth)
    ELSE getLines(job.text, size, job.maxWidth)
LineHeightAt(size) ==
    IF job.kind = "dynamic" THEN FracTimes(Frac(size, 1), job.lineHeightRatio)
    ELSE FracTimes(job.lineHeight, Frac(size, job.initialFontSize))
FitsAt(size) == BlockFits(Len(LinesAt(size)), LineHeightAt(size), job.maxHeight)

\* the floor size, and the sizes initial, initial - 2, ... not below it
FloorSize == IF job.kind = "dynamic" THEN job.minFontSize ELSE autoSizeFloor
SizeSequence ==
    {size \in FloorSize..job.initialFontSize :
        (job.initialFontSize - size) % fontStep = 0}
SetMax(S) == CHOOSE m \in S : \A n \in S : n <= m

\* C23 as stated: a text wider than the box at the initial font size is drawn
\* with a strictly smaller font size.
C23_WideTextShrinks ==
    (TextDrawn /\ measureText(job.text, job.initialFontSize) > job.maxWidth)
    => canvas.text.fontSize < job.initialFontSize

\* C23: the font size is strictly smaller than the initial one whenever the
\* wrapped text at the initial size is higher than the box and the initial
\* size is above the floor size; a text whose wrapped lines fit the box at
\* the initial size is drawn at the initial size, however wide it is.
C23_HighTextShrinks ==
    TextDrawn =>
        /\ (~FitsAt(job.initialFontSize) /\ job.initialFontSize > FloorSize)
              => canvas.text.fontSize < job.initialFontSize
        /\ FitsAt(job.initialFontSize) => canvas.text.fontSize = job.initialFontSize

\* C23 witness: a text wider than the box whose wrapped lines are too high at
\* the initial size has been drawn with a smaller font
C23_Witness ==
    /\ TextDrawn
    /\ measureText(job.text, job.initialFontSize) > job.maxWidth
    /\ ~FitsAt(job.initialFontSize)
    /\ canvas.text.fontSize < job.initialFontSize

\* C24: the chosen font size is the largest size of the sequence initial,
\* initial - 2, ... (not below the floor) at which the wrapped lines times the
\* line height are at most the box height, and the drawn block then fits the
\* box; if there is no such size, the floor size is chosen.
C24_LargestFittingSize ==
    TextDrawn =>
        LET fitting == {size \in SizeSequence : FitsAt(size)}
        IN  IF fitting /= {}
            THEN /\ canvas.text.fontSize = SetMax(fitting)
                 /\ BlockFits(Len(canvas.text.lines), canvas.text.lineHeight,
                              job.maxHeight)
                 /\ canvas.text.lines = LinesAt(canvas.text.fontSize)
                 /\ canvas.text.lineHeight = LineHeightAt(canvas.text.fontSize)
            ELSE canvas.text.fontSize = FloorSize

\* C24 witness: the text did not fit at the initial size nor at the next one
\* and was drawn at the first size at which it fits, above the floor
C24_Witness ==
    /\ TextDrawn
    /\ job.kind = "dynamic"
    /\ job.initialFontSize = FloorSize + 2 * fontStep
    /\ ~FitsAt(job.initialFontSize)
    /\ canvas.text.fontSize = FloorSize + fontStep
    /\ FitsAt(FloorSize + fontStep)

\* the text overflows the box at the floor size
OverflowsAtFloor ==
    /\ TextDrawn
    /\ \A size \in SizeSequence : ~FitsAt(size)

RECURSIVE Flatten(_)
Flatten(lines) == IF lines = <<>> THEN <<>> ELSE Head(lines) \o Flatten(Tail(lines))
NotLineFeed(c) == c /= LineFeed
NotEmpty(w) == w /= <<>>
\* the words of a text: its runs of characters other than space and line feed
WordsOf(text) ==
    SelectSeq(Split([i \in DOMAIN text |-> IF text[i] = LineFeed THEN Space ELSE text[i]],
                    Space),
              NotEmpty)
RECURSIVE WordsOfLines(_)
WordsOfLines(lines) ==
    IF lines = <<>> THEN <<>> ELSE WordsOf(Head(lines)) \o WordsOfLines(Tail(lines))

\* lines wrapped character by character: they hold every character of the
\* text but the line feeds, and a line of several characters fits the width
CharacterWrapped(lines) ==
    /\ Flatten(lines) = SelectSeq(job.text, NotLineFeed)
    /\ \A i \in DOMAIN lines :
          Len(lines[i]) > 1 => measureText(lines[i], job.initialFontSize) <= job.maxWidth

\* lines wrapped word by word: the words of the lines are the words of the
\* text, none of them cut
WordWrapped(lines) == WordsOfLines(lines) = WordsOf(job.text)

\* C26: getLines wraps a text with at least one CJK character character by
\* character, and a text without any word by word.
C26_WrapByScript ==
    canvas.op = "getLines" =>
        IF \E i \in DOMAIN job.text : job.text[i] \in CJK
        THEN CharacterWrapped(canvas.lines)
        ELSE WordWrapped(canvas.lines)

FracPlus(a, b) == Frac(a.num * b.den + b.num * a.den, a.den * b.den)
FracAtMost(a, b) == ~FracLess(b, a)

\* C27: the source rectangle lies inside the source image, has the aspect
\* ratio of the target region, leaves equal margins on both sides of each
\* axis (none on at least one axis), and is drawn onto the whole region.
C27_FullBleedCrop ==
    canvas.op = "image" =>
        LET c == canvas.image
            sWidth == Frac(job.width, 1)
            sHeight == Frac(job.height, 1)
        IN  /\ FracAtMost(Frac(0, 1), c.sx) /\ FracAtMost(Frac(0, 1), c.sy)
            /\ FracLess(Frac(0, 1), c.sw) /\ FracLess(Frac(0, 1), c.sh)
            /\ FracAtMost(FracPlus(c.sx, c.sw), sWidth)
            /\ FracAtMost(FracPlus(c.sy, c.sh), sHeight)
            /\ FracTimes(c.sw, Frac(canvas.region.height, 1))
                 = FracTimes(c.sh, Frac(canvas.region.width, 1))
            /\ FracPlus(FracPlus(c.sx, c.sw), c.sx) = sWidth
            /\ FracPlus(FracPlus(c.sy, c.sh), c.sy) = sHeight
            /\ c.sx = Frac(0, 1) \/ c.sy = Frac(0, 1)
            /\ c.dx = 0 /\ c.dy = 0
            /\ c.dw = canvas.region.width /\ c.dh = canvas.region.height

\* C27 witness: a square image was drawn onto the slide with its top and
\* bottom cropped
C27_Witness ==
    /\ canvas.op = "image"
    /\ canvas.region = SlideRegion
    /\ job.width = job.height
    /\ FracLess(Frac(0, 1), canvas.image.sy)
    /\ canvas.image.sx = Frac(0, 1)

----------------------------------------------------------------------------
(* suggestStyleIdeas (SpecIdeas) *)

\* C28: whatever generateContent does, suggestStyleIdeas resolves to an array
\* of exactly 6 strings.
C28_SixStyles ==
    ideasResult /= Pending =>
        /\ ideasResult.status = "resolved"
        /\ Len(ideasResult.styles) = styleLimit
        /\ \A i \in DOMAIN ideasResult.styles :
              IsString(ideasResult.styles[i])
                 \/ ideasResult.styles[i] \in {fallbackStyles[k] : k \in DOMAIN fallbackStyles}

----------------------------------------------------------------------------
(* Termination of the retry loops (SpecCallsLive, SpecCalls) *)

RetrySettled == rt.pc \in {"returned", "thrown"}
ArchHasSettled == arch.pc \in {"resolved", "rejected"}

\* every new generateContent call is made with the counter one higher, and
\* the counters never decrease
CountersIncrease ==
    /\ rt'.attempt >= rt.attempt
    /\ (rt.pc = "sleeping" /\ rt'.pc = "calling") => rt'.attempt = rt.attempt + 1
    /\ arch'.attempts >= arch.attempts
    /\ (arch.pc = "inflight" /\ arch'.pc \in {"backoff", "rejected"})
          => arch'.attempts = arch.attempts + 1
    /\ rt'.attempt <= maxRetries /\ arch'.attempts <= maxAttempts

\* C31: when every generateContent call settles and every backoff timer
\* fires, a call of callGeminiWithRetry and a call of
\* generateArchitecturalImage eventually return or throw; the attempt counter
\* goes up by one on every failure that is retried and stays within its bound.
C31_CallsSettle ==
    /\ (rt.pc \in {"calling", "sleeping"}) ~> RetrySettled
    /\ (arch.pc \in {"inflight", "backoff"}) ~> ArchHasSettled
    /\ [][CountersIncrease]_vars

\* C31 witness: both calls have settled after at least one retry
C31_Witness ==
    /\ rt.pc = "returned" /\ rt.attempt > 1
    /\ arch.pc = "resolved" /\ arch.attempts > 0

\* C39: the throw statements placed after the two retry loops are never
\* executed: no call settles with their message.
C39_LoopExitUnreachable ==
    /\ rt.error /= RetryLoopExitMessage
    /\ arch.error /= ArchLoopExitMessage

\* C39 witness: both loops were left with every attempt used up, by the throw
\* inside the catch block
C39_Witness ==
    /\ rt.pc = "thrown" /\ rt.attempt = maxRetries
    /\ arch.pc = "rejected" /\ arch.attempts = maxAttempts

\* C34: for any text and any n scenes, also with fewer than n entries in
\* viewpointDetails, slide generation yields n + 3 slides: title, concept,
\* viewpoint 1..n (slide i from scene i and, where it exists,
\* viewpointDetails[i]), conclusion
C34_DeckShape ==
    canvas.op \in {"slides", "rejected"} =>
        /\ canvas.op = "slides"
        /\ Len(canvas.slides) = Len(job.scenes) + 3
        /\ canvas.slides[1].kind = "title"
        /\ canvas.slides[2].kind = "concept"
        /\ canvas.slides[Len(canvas.slides)].kind = "conclusion"
        /\ \A i \in DOMAIN job.scenes :
              /\ canvas.slides[i + 2].kind = "viewpoint"
              /\ canvas.slides[i + 2].image = job.scenes[i].url
              /\ i \in DOMAIN job.viewpointDetails =>
                    canvas.slides[i + 2].detail = job.viewpointDetails[i]

\* a step that replaces the rendered image of Step2Rendering by a new one: a
\* correction, auto-material or dollhouse call of the mounted component
\* resolves with one image, or a candidate is confirmed
SingleResultApplied ==
    \E c \in renderings :
        c.live /\ c.n = 1 /\ c.kind /= "initial" /\ RenderingSettles(c, TRUE)
RenderedImageChanged ==
    step2.renderedImage /= NoImage /\ (SingleResultApplied \/ ConfirmSelection)

\* C35: after a change of the rendered image A to B, restorePrevious gives
\* renderedImage A and the imageHistory of before the change; the image on
\* top of imageHistory is always the one that was current before the most
\* recent change not yet undone, because a change pushes and restorePrevious
\* pops, and the current image is never in the history
C35_UndoRoundTrip ==
    /\ [][RenderedImageChanged =>
            /\ step2'.renderedImage /= step2.renderedImage
            /\ restorePrevious(step2').renderedImage = step2.renderedImage
            /\ restorePrevious(step2').imageHistory = step2.imageHistory]_vars
    /\ [][RestorePrevious =>
            /\ step2'.renderedImage = step2.imageHistory[Len(step2.imageHistory)]
            /\ Append(step2'.imageHistory, step2'.renderedImage) = step2.imageHistory]_vars
    /\ [](~InHistory(step2.imageHistory, step2.renderedImage))

\* C35 witness: two changes were applied and the second was undone
C35_Witness ==
    /\ Len(step2.imageHistory) = 1
    /\ step2.renderedImage.call > step2.imageHistory[1].call
    /\ renderNo > step2.renderedImage.call
    /\ renderings = {}
    /\ ~step2.isSelecting

\* C36: handleSave on slide k changes only the fields of PresentationText
\* that belong to slide k: presentationTitle for the title slide,
\* conceptTitle and mainConcepts for the concept slide, viewpointDetails[i]
\* for viewpoint slide i, conclusionTitle and conclusion for the conclusion
\* slide
C36_SaveFrame ==
    canvas.op = "saved" =>
        LET old == job.text
            new == canvas.text
            type == SlideKind(job.slideIndex, job.completed)
        IN  /\ type /= "title" => new.presentationTitle = old.presentationTitle
            /\ type /= "concept" =>
                  /\ new.conceptTitle = old.conceptTitle
                  /\ new.mainConcepts = old.mainConcepts
            /\ type /= "conclusion" =>
                  /\ new.conclusionTitle = old.conclusionTitle
                  /\ new.conclusion = old.conclusion
            /\ \A i \in 1..(MaxDeck + 1) :
                  (type /= "viewpoint" \/ i /= job.slideIndex - 2) =>
                      DetailAt(new, i) = DetailAt(old, i)
            /\ type /= "viewpoint" => new.viewpointDetails = old.viewpointDetails

\* C36 witness: the first of three viewpoint slides was saved with a new
\* title and description
C36_Witness ==
    /\ canvas.op = "saved"
    /\ SlideKind(job.slideIndex, job.completed) = "viewpoint"
    /\ job.slideIndex = 3
    /\ Len(job.text.viewpointDetails) = 3
    /\ canvas.text.viewpointDetails[1] /= job.text.viewpointDetails[1]

\* a step in which handleImageUpload runs, and one in which
\* handleRenderingComplete runs
ImageUploadHandled == \E k \in reads : \E ok \in BOOLEAN : ReaderLoadEnd(k, ok)
RenderingCompleteHandled ==
    \/ \E c \in renderings : c.n = 1 /\ RenderingSettles(c, TRUE)
    \/ ConfirmSelection
    \/ RestorePrevious

\* handleImageUpload empties renderedImage, style and generatedScenes,
\* handleRenderingComplete empties style and generatedScenes and keeps
\* uploadedImage; both keep currentStep
DownstreamReset ==
    /\ ImageUploadHandled =>
          /\ renderedImage' = NoImage /\ style' = "" /\ scenes' = <<>>
          /\ currentStep' = currentStep
    /\ RenderingCompleteHandled =>
          /\ style' = "" /\ scenes' = <<>>
          /\ currentStep' = currentStep /\ uploadedImage' = uploadedImage

\* a step that writes the image of a generation call into the collection
SceneImageWritten(op) ==
    /\ op.kind = "gen"
    /\ GenSettles(op, TRUE) \/ GenSettlesUnmounted(op, TRUE)
    /\ scenes' /= scenes

\* C37: handleImageUpload and handleRenderingComplete reset what depends on
\* the image they replace and leave currentStep (and uploadedImage) alone;
\* hence an image written into generatedScenes was generated from the current
\* renderedImage
C37_DownstreamInvalidation ==
    /\ [][DownstreamReset]_vars
    /\ [][\A op \in inflight : SceneImageWritten(op) => op.plan = renderedImage]_vars


(* ---------------------------------------------------------------------
   getLines: nothing lost, no line of several units too wide
   --------------------------------------------------------------------- *)

\* a line of several words fits the width
SeveralWordsFit(lines) ==
    \A i \in DOMAIN lines :
        Len(WordsOf(lines[i])) > 1 =>
            measureText(lines[i], job.initialFontSize) <= job.maxWidth

\* C38: the lines getLines returns hold every character of the text (text
\* wrapped character by character) or every word of it (text wrapped word
\* by word) once and in order, and a line of several characters or words is
\* not wider than maxWidth.
C38_LosslessAndBounded ==
    canvas.op = "getLines" =>
        IF hasChinese(job.text)
        THEN CharacterWrapped(canvas.lines)
        ELSE WordWrapped(canvas.lines) /\ SeveralWordsFit(canvas.lines)

\* the same with the words the loop iterates over: text.split(' ') without
\* its empty strings in createPresentationSlides, the words of the
\* paragraphs in generateSlides
SplitWords(text) == SelectSeq(Split(text, Space), NotEmpty)
RECURSIVE SplitWordsOfLines(_)
SplitWordsOfLines(lines) ==
    IF lines = <<>> THEN <<>>
    ELSE SplitWords(Head(lines)) \o SplitWordsOfLines(Tail(lines))
LosslessAndBoundedBySplit ==
    canvas.op = "getLines" =>
        IF hasChinese(job.text) THEN CharacterWrapped(canvas.lines)
        ELSE IF job.kind = "auto"
        THEN WordWrapped(canvas.lines) /\ SeveralWordsFit(canvas.lines)
        ELSE /\ SplitWordsOfLines(canvas.lines) = SplitWords(job.text)
             /\ \A i \in DOMAIN canvas.lines :
                   Len(SplitWords(canvas.lines[i])) > 1 =>
                       measureText(canvas.lines[i], job.initialFontSize) <= job.maxWidth

====
